---------------------------- MODULE Spec2Model ----------------------------
(***************************************************************************)
(* Threat-detection pipeline of ai-cybershield: ThreatScoring,             *)
(* BehaviorAnalyzer, CorrelationEngine and analyzeLogs.                    *)
(*                                                                         *)
(* Time is in milliseconds, as Date.now() / Date.getTime() give it.  The   *)
(* local time zone is taken to be UTC, so that millisecond 0 is local      *)
(* midnight of a Thursday (getDay() = 4).                                  *)
(***************************************************************************)
EXTENDS Integers, Sequences, FiniteSets, TLC

VARIABLES
    pc,                \* position of the current call: "input" or "done"
    op,                \* the operation performed by the last step
    threat,            \* calculateThreatScore: argument threat
    context,           \* calculateThreatScore: argument context
    behaviorAnalysis,  \* calculateThreatScore: argument behaviorAnalysis
    contextScore,      \* value returned by calculateContextScore(context)
    score,             \* value returned by calculateThreatScore
    threatLevel,       \* value returned by getThreatLevel(score)
    now,               \* the wall clock: Date.now()
    activityLog,       \* BehaviorAnalyzer.activityLog: source -> records
    analysis,          \* value returned by analyzePattern in the last step
    threats,           \* the threat list given to correlateThreats
    correlations,      \* value returned by correlateThreats(threats)
    logData,           \* analyzeLogs: argument logData
    result,            \* value returned, or error thrown, by the last call
    catalog,           \* the pattern list patterns.js validates on load
    reqs,              \* the HTTP requests in flight: id -> request state
    jobs,              \* the microtask queue: ids of requests to resume
    accesses           \* history: the tracker accesses, in order

vars == <<pc, op, threat, context, behaviorAnalysis, contextScore,
          score, threatLevel, now, activityLog, analysis, threats,
          correlations, logData, result, catalog, reqs, jobs, accesses>>

serverVars == <<reqs, jobs, accesses>>

catalogVars == <<catalog>>

pipelineVars == <<logData, result>>

corrVars == <<threats, correlations>>

trackerVars == <<now, activityLog, analysis>>

scoreVars == <<threat, context, behaviorAnalysis, contextScore, score,
               threatLevel>>

-----------------------------------------------------------------------------
(* Generic helpers *)

Min(a, b) == IF a <= b THEN a ELSE b
Max(a, b) == IF a >= b THEN a ELSE b

\* JavaScript null / undefined for an object-valued argument or field.
Null == [isNull |-> TRUE]

\* The value of op before any operation has run.
NoOp == [name |-> "none", ip |-> "none"]

MsPerSecond == 1000
MsPerMinute == 60 * 1000
MsPerHour == 60 * 60 * 1000
MsPerDay == 24 * MsPerHour

\* new Date(t).getHours()
GetHours(t) == (t \div MsPerHour) % 24

\* new Date(t).getDay(): 0 = Sunday ... 6 = Saturday; day 0 is a Thursday
GetDay(t) == ((t \div MsPerDay) + 4) % 7

-----------------------------------------------------------------------------
(* ThreatScoring *)

\* this.severityWeights[severity] || 0
SeverityWeight(severity) ==
    CASE severity = "HIGH"   -> 70
      [] severity = "MEDIUM" -> 40
      [] severity = "LOW"    -> 20
      [] severity = "INFO"   -> 0
      [] OTHER               -> 0

\* this.categoryWeights[category] || 0
CategoryWeight(category) ==
    CASE category = "AUTH"           -> 25
      [] category = "INJECTION"      -> 30
      [] category = "XSS"            -> 25
      [] category = "RECONNAISSANCE" -> 20
      [] category = "MALWARE"        -> 30
      [] category = "FILE_SYSTEM"    -> 25
      [] category = "NETWORK"        -> 20
      [] category = "DATABASE"       -> 25
      [] OTHER                       -> 0

\* The mutant of calculateContextScore that scores a single occurrence too.
CalculateContextScoreNoGuard(ctx) ==
    IF ctx = Null THEN 0
    ELSE Min(ctx.occurrences * 5, 20)
         + (IF ctx.relatedEvents > 0 THEN Min(ctx.relatedEvents * 3, 15) ELSE 0)

\* calculateContextScore(context); ctx.relatedEvents is relatedEvents.length
CalculateContextScore(ctx) ==
    IF ctx = Null THEN 0
    ELSE (IF ctx.occurrences > 1 THEN Min(ctx.occurrences * 5, 20) ELSE 0)
         + (IF ctx.relatedEvents > 0 THEN Min(ctx.relatedEvents * 3, 15) ELSE 0)

\* calculateBehaviorScore(behaviorAnalysis)
CalculateBehaviorScore(b) ==
    IF b = Null THEN 0
    ELSE (IF b.frequency.isHighFrequency THEN 15 ELSE 0)
         + (IF b.unusualTiming.suspicious
               THEN 10 + (IF b.unusualTiming.regularPattern THEN 5 ELSE 0)
               ELSE 0)
         + (IF b.suspiciousSequence.suspicious THEN 15 ELSE 0)

\* calculateTimeBasedScore(timestamp)
CalculateTimeBasedScore(timestamp) ==
    (IF GetHours(timestamp) >= 22 \/ GetHours(timestamp) <= 5 THEN 10 ELSE 0)
    + (IF GetDay(timestamp) = 0 \/ GetDay(timestamp) = 6 THEN 5 ELSE 0)

\* The sum calculateThreatScore accumulates before it normalises it.
RawThreatScore(t, ctx, b) ==
    SeverityWeight(t.severity)
    + CategoryWeight(t.category)
    + CalculateContextScore(ctx)
    + (IF b # Null THEN CalculateBehaviorScore(b) ELSE 0)
    + CalculateTimeBasedScore(t.timestamp)

\* The mutant of calculateThreatScore that forgets the upper clamp.
CalculateThreatScoreNoCap(t, ctx, b) == Max(RawThreatScore(t, ctx, b), 0)

\* calculateThreatScore(threat, context, behaviorAnalysis).  Every addend is
\* an integer, so Math.round leaves the sum as it is.
CalculateThreatScore(t, ctx, b) ==
    Min(Max(RawThreatScore(t, ctx, b), 0), 100)

\* The mutant of getThreatLevel whose HIGH test excludes its lower bound.
GetThreatLevelExclusive(s) ==
    IF s >= 80 THEN "CRITICAL"
    ELSE IF s > 60 THEN "HIGH"
    ELSE IF s >= 40 THEN "MEDIUM"
    ELSE IF s >= 20 THEN "LOW"
    ELSE "INFO"

\* getThreatLevel(score)
GetThreatLevel(s) ==
    IF s >= 80 THEN "CRITICAL"
    ELSE IF s >= 60 THEN "HIGH"
    ELSE IF s >= 40 THEN "MEDIUM"
    ELSE IF s >= 20 THEN "LOW"
    ELSE "INFO"

\* CorrelationEngine.getThreatLevelWeight(level): weights[level] || 0
GetThreatLevelWeight(level) ==
    CASE level = "CRITICAL" -> 4
      [] level = "HIGH"     -> 3
      [] level = "MEDIUM"   -> 2
      [] level = "LOW"      -> 1
      [] level = "INFO"     -> 0
      [] OTHER              -> 0

-----------------------------------------------------------------------------
(* BehaviorAnalyzer.  An activity record is [action, timestamp]; the        *)
(* timestamp is the millisecond value that new Date(timestamp).getTime()    *)
(* gives back for the ISO string the caller passed.                         *)

\* The source identifiers the model tracks.
Sources == {"10.0.0.5", "10.0.0.6"}

MaxAttemptsPerMinute == 30
MaxFailedLogins == 5

\* new BehaviorAnalyzer(): this.activityLog = new Map()
NewActivityLog == [ip \in Sources |-> <<>>]

\* this.activityLog.get(ip) || []
Activities(log, ip) == log[ip]

Abs(x) == IF x < 0 THEN 0 - x ELSE x

RECURSIVE SumSeq(_)
SumSeq(s) == IF s = <<>> THEN 0 ELSE Head(s) + SumSeq(Tail(s))

\* The mutant of cleanup that keeps a record exactly one hour old.
CleanupInclusive(activities, t) ==
    SelectSeq(activities, LAMBDA a : a.timestamp >= t - MsPerHour)

\* cleanup(ip): the records kept when Date.now() = t
Cleanup(activities, t) ==
    SelectSeq(activities, LAMBDA a : a.timestamp > t - MsPerHour)

\* trackActivity(ip, action, timestamp) at Date.now() = t: the new log
TrackActivity(log, ip, action, timestamp, t) ==
    [log EXCEPT ![ip] =
        Cleanup(Append(log[ip], [action |-> action, timestamp |-> timestamp]), t)]

\* calculateFrequency(activities) at Date.now() = t
CalculateFrequency(activities, t) ==
    IF Len(activities) = 0 THEN [rate |-> 0, isHighFrequency |-> FALSE]
    ELSE LET rate == Len(SelectSeq(activities,
                             LAMBDA a : t - a.timestamp <= MsPerMinute))
         IN  [rate |-> rate, isHighFrequency |-> rate > MaxAttemptsPerMinute]

\* The gaps timestamps[i] - timestamps[i - 1], i = 1 .. length - 1
Intervals(activities) ==
    [i \in 1..(Len(activities) - 1) |->
        activities[i + 1].timestamp - activities[i].timestamp]

\* checkRegularIntervals(intervals): with n gaps of sum S the mean absolute
\* deviation sum |x - S/n| / n is below 100 exactly when
\* sum |n*x - S| < 100 * n * n.
CheckRegularIntervals(intervals) ==
    LET n == Len(intervals)
        S == SumSeq(intervals)
    IN  IF n < 3 THEN FALSE
        ELSE SumSeq([i \in 1..n |-> Abs(n * intervals[i] - S)]) < 100 * n * n

\* checkTimingPatterns(activities)
CheckTimingPatterns(activities) ==
    IF Len(activities) = 0 THEN [suspicious |-> FALSE]
    ELSE LET isRegularPattern == CheckRegularIntervals(Intervals(activities))
             hasUnusualTiming ==
                 \E i \in 1..Len(activities) :
                     /\ GetHours(activities[i].timestamp) >= 2
                     /\ GetHours(activities[i].timestamp) <= 5
         IN  [suspicious |-> isRegularPattern \/ hasUnusualTiming,
              regularPattern |-> isRegularPattern,
              unusualTiming |-> hasUnusualTiming]

\* A JavaScript number that may be NaN.
Num(v) == [isNaN |-> FALSE, v |-> v]
NaN == [isNaN |-> TRUE, v |-> 0]

\* a - b and a < b on such numbers: NaN propagates, and compares false.
NumMinus(a, b) == IF a.isNaN \/ b.isNaN THEN NaN ELSE Num(a.v - b.v)
NumLess(a, b) == ~a.isNaN /\ ~b.isNaN /\ a.v < b.v

\* new Date(x).getTime() of a timestamp: the milliseconds it denotes
GetTimeOfTimestamp(timestamp) == Num(timestamp)

\* new Date(x).getTime() of an activity record (an object, not a date): the
\* object converts to the string "[object Object]", an invalid date.
GetTimeOfActivity(activity) == NaN

\* checkRapidSuccession, lines 122-124: timeDiff for index i (1-based here)
RapidTimeDiff(activities, i) ==
    NumMinus(GetTimeOfTimestamp(activities[i].timestamp),
             GetTimeOfActivity(activities[i - 1]))

\* checkRapidSuccession(activities)
CheckRapidSuccession(activities) ==
    IF Len(activities) < 2 THEN FALSE
    ELSE \E i \in 2..Len(activities) :
             NumLess(RapidTimeDiff(activities, i), Num(MsPerSecond))

KnownPatterns ==
    << <<"failed_login", "success_login", "access_sensitive">>,
       <<"port_scan", "vulnerability_scan", "exploit_attempt">> >>

\* containsSequence(array, sequence): array.join(',') includes
\* sequence.join(','); for action labels none of which ends or starts with
\* part of another, that is a contiguous run of the labels.
ContainsSequence(array, sequence) ==
    \E k \in 0..(Len(array) - Len(sequence)) :
        \A j \in 1..Len(sequence) : array[k + j] = sequence[j]

\* detectKnownPatterns(activities)
DetectKnownPatterns(activities) ==
    LET actions == [i \in 1..Len(activities) |-> activities[i].action]
    IN  \E p \in 1..Len(KnownPatterns) :
            ContainsSequence(actions, KnownPatterns[p])

\* checkActionSequence(activities)
CheckActionSequence(activities) ==
    LET failedLogins ==
            Len(SelectSeq(activities, LAMBDA a : a.action = "failed_login"))
        details ==
            [failedLogins |-> failedLogins >= MaxFailedLogins,
             rapidSuccession |-> CheckRapidSuccession(activities),
             patternDetected |-> DetectKnownPatterns(activities)]
    IN  [suspicious |-> details.failedLogins \/ details.rapidSuccession
                        \/ details.patternDetected,
         details |-> details]

\* The mutant of calculateRiskScore that adds the whole number of records.
CalculateRiskScoreAllRecords(activities, t) ==
    Min(100,
        (IF CalculateFrequency(activities, t).isHighFrequency THEN 30 ELSE 0)
        + (IF CheckTimingPatterns(activities).suspicious THEN 25 ELSE 0)
        + (IF CheckActionSequence(activities).suspicious THEN 25 ELSE 0)
        + Len(activities))

\* calculateRiskScore(activities) at Date.now() = t
CalculateRiskScore(activities, t) ==
    Min(100,
        (IF CalculateFrequency(activities, t).isHighFrequency THEN 30 ELSE 0)
        + (IF CheckTimingPatterns(activities).suspicious THEN 25 ELSE 0)
        + (IF CheckActionSequence(activities).suspicious THEN 25 ELSE 0)
        + Min(20, Len(activities)))

\* The signals analyzePattern computes from a list of records at time t
AnalyzeActivities(activities, t) ==
    [frequency |-> CalculateFrequency(activities, t),
     unusualTiming |-> CheckTimingPatterns(activities),
     suspiciousSequence |-> CheckActionSequence(activities),
     riskScore |-> CalculateRiskScore(activities, t)]

\* analyzePattern(ip) at Date.now() = t
AnalyzePattern(log, ip, t) == AnalyzeActivities(Activities(log, ip), t)

-----------------------------------------------------------------------------
(* CorrelationEngine.  A threat is a record with the fields category,       *)
(* timestamp, sourceIP and threatLevel; NoIP stands for a null sourceIP.    *)
(* Groups and pattern matches name threats by their position in the list.   *)

NoIP == ""

\* this.timeWindowMs
TimeWindowMs == 15 * MsPerMinute

\* category in this.correlationRules
HasRule(category) == category \in {"AUTH", "RECONNAISSANCE", "INJECTION"}

\* this.correlationRules[category].relatedCategories
RelatedCategories(category) ==
    CASE category = "AUTH"           -> {"RECONNAISSANCE", "INJECTION"}
      [] category = "RECONNAISSANCE" -> {"INJECTION", "XSS", "AUTH"}
      [] category = "INJECTION"      -> {"XSS", "AUTH"}
      [] OTHER                       -> {}

\* The mutant of the rules whose windows are one minute long.
RuleTimeWindowOneMinute(category) == MsPerMinute

\* this.correlationRules[category].timeWindow
RuleTimeWindow(category) ==
    CASE category = "AUTH"           -> 5 * MsPerMinute
      [] category = "RECONNAISSANCE" -> 10 * MsPerMinute
      [] category = "INJECTION"      -> 5 * MsPerMinute
      [] OTHER                       -> 0

\* rule?.timeWindow || this.timeWindowMs
EffectiveTimeWindow(category) ==
    IF HasRule(category) THEN RuleTimeWindow(category) ELSE TimeWindowMs

\* The mutant of checkCorrelation that looks up the rule of the second threat.
CheckCorrelationRuleOfSecond(threat1, threat2) ==
    LET timeDiff == Abs(threat1.timestamp - threat2.timestamp)
        sameIP == /\ threat1.sourceIP # NoIP
                  /\ threat2.sourceIP # NoIP
                  /\ threat1.sourceIP = threat2.sourceIP
        temporal == timeDiff <= EffectiveTimeWindow(threat2.category)
        categorical == threat1.category \in RelatedCategories(threat2.category)
    IN  [isCorrelated |-> temporal \/ sameIP \/ categorical,
         type |-> (IF temporal THEN <<"temporal">> ELSE <<>>)
                  \o (IF sameIP THEN <<"source">> ELSE <<>>)
                  \o (IF categorical THEN <<"categorical">> ELSE <<>>)]

\* checkCorrelation(threat1, threat2)
CheckCorrelation(threat1, threat2) ==
    LET timeDiff == Abs(threat1.timestamp - threat2.timestamp)
        sameIP == /\ threat1.sourceIP # NoIP
                  /\ threat2.sourceIP # NoIP
                  /\ threat1.sourceIP = threat2.sourceIP
        temporal == timeDiff <= EffectiveTimeWindow(threat1.category)
        categorical == threat2.category \in RelatedCategories(threat1.category)
    IN  [isCorrelated |-> temporal \/ sameIP \/ categorical,
         type |-> (IF temporal THEN <<"temporal">> ELSE <<>>)
                  \o (IF sameIP THEN <<"source">> ELSE <<>>)
                  \o (IF categorical THEN <<"categorical">> ELSE <<>>)]

\* The mutant of the inner loop's guard that forgets the claimed threats.
SkipRelatedSelfOnly(index, relatedIndex, processedThreats) ==
    index = relatedIndex

\* findCorrelatedEvents, lines 222-223: the inner loop skips this index
SkipRelated(index, relatedIndex, processedThreats) ==
    index = relatedIndex \/ relatedIndex \in processedThreats

\* The mutant of the emit test that also emits a group without related threats.
EmitGroupAlways(correlatedGroup) == Len(correlatedGroup.relatedThreats) >= 0

\* findCorrelatedEvents, line 241: the group is emitted
EmitGroup(correlatedGroup) == Len(correlatedGroup.relatedThreats) > 0

\* A threat without threatLevel carries NoLevel.
NoLevel == ""

\* findCorrelatedEvents, line 217: threat.threatLevel || 'MEDIUM'
InitialRiskLevel(t) ==
    IF t.threatLevel = NoLevel THEN "MEDIUM" ELSE t.threatLevel

\* The mutant of the upgrade that keeps the primary threat's level.
KeepRiskLevel(riskLevel, relatedLevel) == riskLevel

\* findCorrelatedEvents, lines 231-237: the group's riskLevel after a related
\* threat of the given level joined
UpgradedRiskLevel(riskLevel, relatedLevel) ==
    IF GetThreatLevelWeight(relatedLevel) > GetThreatLevelWeight(riskLevel)
    THEN relatedLevel ELSE riskLevel

\* findCorrelatedEvents, lines 221-239: the inner forEach from relatedIndex
\* on; st holds the group built so far and the claimed positions.
RECURSIVE ScanRelated(_, _, _, _)
ScanRelated(ts, index, relatedIndex, st) ==
    IF relatedIndex > Len(ts) THEN st
    ELSE IF SkipRelated(index, relatedIndex, st.processedThreats)
         THEN ScanRelated(ts, index, relatedIndex + 1, st)
    ELSE LET correlation == CheckCorrelation(ts[index], ts[relatedIndex])
             g == st.group
         IN  IF correlation.isCorrelated
             THEN ScanRelated(ts, index, relatedIndex + 1,
                     [group |->
                         [g EXCEPT
                            !.relatedThreats = Append(@, relatedIndex),
                            !.correlationType = Append(@, correlation.type),
                            !.riskLevel =
                                UpgradedRiskLevel(@,
                                    ts[relatedIndex].threatLevel)],
                      processedThreats |->
                          st.processedThreats \cup {relatedIndex}])
             ELSE ScanRelated(ts, index, relatedIndex + 1, st)

\* findCorrelatedEvents, lines 210-245: the outer forEach from index on
RECURSIVE ScanThreats(_, _, _, _)
ScanThreats(ts, index, processedThreats, correlatedGroups) ==
    IF index > Len(ts) THEN correlatedGroups
    ELSE IF index \in processedThreats
         THEN ScanThreats(ts, index + 1, processedThreats, correlatedGroups)
    ELSE LET st == ScanRelated(ts, index, 1,
                     [group |-> [primaryThreat |-> index,
                                 relatedThreats |-> <<>>,
                                 correlationType |-> <<>>,
                                 riskLevel |-> InitialRiskLevel(ts[index])],
                      processedThreats |-> processedThreats])
         IN  IF EmitGroup(st.group)
             THEN ScanThreats(ts, index + 1,
                              st.processedThreats \cup {index},
                              Append(correlatedGroups, st.group))
             ELSE ScanThreats(ts, index + 1, st.processedThreats,
                              correlatedGroups)

\* findCorrelatedEvents(threats)
FindCorrelatedEvents(ts) == ScanThreats(ts, 1, {}, <<>>)

\* The positions of seq extended by idx, kept in timestamp order; idx goes
\* behind the positions of equal timestamp (Array.prototype.sort is stable).
RECURSIVE InsertByTime(_, _, _)
InsertByTime(ts, seq, idx) ==
    IF seq = <<>> THEN <<idx>>
    ELSE IF ts[Head(seq)].timestamp <= ts[idx].timestamp
         THEN <<Head(seq)>> \o InsertByTime(ts, Tail(seq), idx)
         ELSE <<idx>> \o seq

RECURSIVE SortPrefixByTime(_, _)
SortPrefixByTime(ts, n) ==
    IF n = 0 THEN <<>> ELSE InsertByTime(ts, SortPrefixByTime(ts, n - 1), n)

\* The mutant of the ordering that leaves the threats in the order given.
InputOrderThreats(ts) == [k \in 1..Len(ts) |-> k]

\* identifyAttackPatterns, lines 288-290: timeOrderedThreats, as positions
TimeOrderedThreats(ts) == SortPrefixByTime(ts, Len(ts))

SequenceFirst == "RECONNAISSANCE"
SequenceFollow == {"INJECTION", "XSS", "AUTH"}
SequenceTimeWindow == 30 * MsPerMinute
FrequencyCategory == "AUTH"
FrequencyTimeWindow == 5 * MsPerMinute
MinOccurrences == 5
UniqueCategories == 3
DiversityTimeWindow == 15 * MsPerMinute

\* matchSequencePattern, lines 337-342: nextThreats.find(...) after place i of
\* the ordered list; 0 when nothing is found
RECURSIVE FindFollow(_, _, _, _)
FindFollow(ts, ordered, i, j) ==
    IF j > Len(ordered) THEN 0
    ELSE IF /\ ts[ordered[j]].category \in SequenceFollow
            /\ ts[ordered[j]].timestamp - ts[ordered[i]].timestamp
                   <= SequenceTimeWindow
         THEN j
         ELSE FindFollow(ts, ordered, i, j + 1)

\* matchSequencePattern(threats, pattern), the loop from place i on
RECURSIVE MatchSequenceFrom(_, _, _)
MatchSequenceFrom(ts, ordered, i) ==
    IF i > Len(ordered) - 1 THEN Null
    ELSE IF ts[ordered[i]].category = SequenceFirst
            /\ FindFollow(ts, ordered, i, i + 1) # 0
         THEN [name |-> "Reconnaissance followed by Attack",
               threats |-> <<ordered[i],
                             ordered[FindFollow(ts, ordered, i, i + 1)]>>,
               timestamp |-> ts[ordered[i]].timestamp,
               confidence |-> "HIGH"]
         ELSE MatchSequenceFrom(ts, ordered, i + 1)

\* matchSequencePattern(threats, pattern)
MatchSequencePattern(ts, ordered) == MatchSequenceFrom(ts, ordered, 1)

\* The mutant of the window test that leaves out a delta equal to the size.
RECURSIVE WindowEndExclusive(_, _, _, _, _)
WindowEndExclusive(ts, list, windowSize, i, j) ==
    IF j > Len(list) THEN j - 1
    ELSE IF ts[list[j]].timestamp - ts[list[i]].timestamp < windowSize
         THEN WindowEndExclusive(ts, list, windowSize, i, j + 1)
         ELSE j - 1

\* findTimeWindows, lines 402-409: the last place of the window starting at i
RECURSIVE WindowEnd(_, _, _, _, _)
WindowEnd(ts, list, windowSize, i, j) ==
    IF j > Len(list) THEN j - 1
    ELSE IF ts[list[j]].timestamp - ts[list[i]].timestamp <= windowSize
         THEN WindowEnd(ts, list, windowSize, i, j + 1)
         ELSE j - 1

\* findTimeWindows(threats, windowSize): the windows of more than one threat
RECURSIVE FindTimeWindowsFrom(_, _, _, _)
FindTimeWindowsFrom(ts, list, windowSize, i) ==
    IF i > Len(list) THEN <<>>
    ELSE LET e == WindowEnd(ts, list, windowSize, i, i + 1)
             rest == FindTimeWindowsFrom(ts, list, windowSize, i + 1)
         IN  IF e > i THEN <<SubSeq(list, i, e)>> \o rest ELSE rest

FindTimeWindows(ts, list, windowSize) ==
    FindTimeWindowsFrom(ts, list, windowSize, 1)

\* windows.find(pred): the place of the first window among those whose
\* places are in hits, or 0
FirstPlace(hits) ==
    IF hits = {} THEN 0
    ELSE CHOOSE k \in hits : \A m \in hits : k <= m

\* matchFrequencyPattern(threats, pattern)
MatchFrequencyPattern(ts, ordered) ==
    LET categoryThreats ==
            SelectSeq(ordered, LAMBDA k : ts[k].category = FrequencyCategory)
        windows == FindTimeWindows(ts, categoryThreats, FrequencyTimeWindow)
        found == FirstPlace({k \in 1..Len(windows) :
                                Len(windows[k]) >= MinOccurrences})
        matchedWindow == windows[found]
    IN  IF found = 0 THEN Null
        ELSE [name |-> "Brute Force Attack",
              threats |-> matchedWindow,
              timestamp |-> ts[matchedWindow[1]].timestamp,
              confidence |-> "HIGH"]

\* matchDiversityPattern(threats, pattern)
MatchDiversityPattern(ts, ordered) ==
    LET windows == FindTimeWindows(ts, ordered, DiversityTimeWindow)
        categories(w) == {ts[w[k]].category : k \in 1..Len(w)}
        found == FirstPlace({k \in 1..Len(windows) :
                                Cardinality(categories(windows[k]))
                                    >= UniqueCategories})
        matchedWindow == windows[found]
    IN  IF found = 0 THEN Null
        ELSE [name |-> "Multi-Vector Attack",
              threats |-> matchedWindow,
              timestamp |-> ts[matchedWindow[1]].timestamp,
              confidence |-> "MEDIUM"]

\* identifyAttackPatterns(threats)
IdentifyAttackPatterns(ts) ==
    LET ordered == TimeOrderedThreats(ts)
        matches == <<MatchSequencePattern(ts, ordered),
                     MatchFrequencyPattern(ts, ordered),
                     MatchDiversityPattern(ts, ordered)>>
    IN  SelectSeq(matches, LAMBDA m : m # Null)

\* getMostCommonCorrelationType, lines 443-448: the type keys in the order
\* they are first counted.  A key is the type list of one related threat.
RECURSIVE TypeKeys(_)
TypeKeys(types) ==
    IF types = <<>> THEN <<>>
    ELSE LET front == TypeKeys(SubSeq(types, 1, Len(types) - 1))
             last == types[Len(types)]
         IN  IF \E k \in 1..Len(front) : front[k] = last
             THEN front ELSE Append(front, last)

\* The correlationType entries of all groups, in order
RECURSIVE AllCorrelationTypes(_)
AllCorrelationTypes(groups) ==
    IF groups = <<>> THEN <<>>
    ELSE Head(groups).correlationType \o AllCorrelationTypes(Tail(groups))

\* getMostCommonCorrelationType(correlatedEvents): the first key, in counting
\* order, of the highest count (the sort is stable), or <<"none">>
GetMostCommonCorrelationType(correlatedEvents) ==
    LET types == AllCorrelationTypes(correlatedEvents)
        keys == TypeKeys(types)
        count(key) == Len(SelectSeq(types, LAMBDA t : t = key))
    IN  IF keys = <<>> THEN <<"none">>
        ELSE keys[CHOOSE k \in 1..Len(keys) :
                    /\ \A m \in 1..Len(keys) : count(keys[m]) <= count(keys[k])
                    /\ \A m \in 1..(k - 1) : count(keys[m]) < count(keys[k])]

\* generateCorrelationSummary(correlatedEvents, patterns)
GenerateCorrelationSummary(correlatedEvents, patterns) ==
    [totalCorrelatedGroups |-> Len(correlatedEvents),
     totalPatterns |-> Len(patterns),
     criticalCorrelations |->
         Len(SelectSeq(correlatedEvents, LAMBDA g : g.riskLevel = "CRITICAL")),
     patternTypes |-> [k \in 1..Len(patterns) |-> patterns[k].name],
     mostCommonCorrelationType |->
         GetMostCommonCorrelationType(correlatedEvents)]

\* correlateThreats(threats)
CorrelateThreats(ts) ==
    IF Len(ts) = 0
    THEN [correlatedEvents |-> <<>>, patterns |-> <<>>]
    ELSE LET correlatedEvents == FindCorrelatedEvents(ts)
             patterns == IdentifyAttackPatterns(ts)
         IN  [correlatedEvents |-> correlatedEvents,
              patterns |-> patterns,
              summary |-> GenerateCorrelationSummary(correlatedEvents, patterns)]

-----------------------------------------------------------------------------
(* The pattern catalog and analyzeLogs.                                     *)
(*                                                                         *)
(* A log line is a record [logTime, text, ip] that stands for the text      *)
(*     <logTime as a 20-character ISO time> <text> [from <ip>]              *)
(* such as "2024-01-01T03:00:00Z failed login from 10.0.0.5".  logData is   *)
(* [isString, lines]: whether the argument is a string and, if so, the      *)
(* lines it is made of; no lines stand for the empty string.                *)

\* SUSPICIOUS_PATTERNS: severity and category of each entry, in order
SuspiciousPatterns ==
    << [severity |-> "HIGH",   category |-> "AUTH"],
       [severity |-> "MEDIUM", category |-> "AUTH"],
       [severity |-> "HIGH",   category |-> "BRUTE_FORCE"],
       [severity |-> "MEDIUM", category |-> "SUSPICIOUS_ACCOUNT"],
       [severity |-> "HIGH",   category |-> "PRIVILEGE_ESCALATION"],
       [severity |-> "HIGH",   category |-> "SYSTEM_ACCESS"],
       [severity |-> "HIGH",   category |-> "RECONNAISSANCE"],
       [severity |-> "HIGH",   category |-> "MALWARE"] >>

\* A value of a pattern entry's field: a string, or undefined.
Str(v) == [type |-> "string", v |-> v]
Undefined == [type |-> "undefined", v |-> ""]

\* The entries of SUSPICIOUS_PATTERNS as validatePatterns sees them: the
\* pattern field is a RegExp literal in each.
LoadedCatalog ==
    [k \in 1..Len(SuspiciousPatterns) |->
        [pattern |-> "RegExp",
         severity |-> Str(SuspiciousPatterns[k].severity),
         category |-> Str(SuspiciousPatterns[k].category)]]

\* validatePatterns, line 81: the severities the validator lists
ValidSeverities == {"HIGH", "MEDIUM", "LOW", "INFO"}

\* The mutant of the entry test that does not look at the severity's value.
ValidEntryAnySeverity(p) ==
    /\ p.pattern = "RegExp"
    /\ p.severity.type = "string"
    /\ p.category.type = "string"

\* validatePatterns, lines 76-81: the test applied to every entry
ValidEntry(p) ==
    /\ p.pattern = "RegExp"
    /\ p.severity.type = "string"
    /\ p.category.type = "string"
    /\ p.severity.v \in ValidSeverities

\* validatePatterns(patterns)
ValidatePatterns(patterns) ==
    \A k \in 1..Len(patterns) : ValidEntry(patterns[k])

\* The message texts of the model's log lines.
LineTexts ==
    {"failed login", "port scan detected", "SQL injection attempt",
     "multiple failed login attempts", "successful login for unknown user"}

\* pattern.pattern.test(line): the catalog entries whose regular expression
\* matches a line with the given text.  "failed login" matches entry 1,
\* /(unauthorized|invalid|failed|denied)\s*(access|login|logon|authentication)/i;
\* "multiple failed login attempts" matches entry 1 and entry 3,
\* /(multiple|repeated|excessive)\s*(failed|invalid)\s*(login|attempt)/i;
\* "successful login for unknown user" matches entry 4,
\* /(unknown|invalid|non-existent)\s*(user|account)/i;
\* "port scan detected" matches entry 7, /(port|network)\s*scan|reconnaissance/i;
\* "malware detected" matches entry 8,
\* /malware|virus|trojan|suspicious\s*(execution|process|file)/i;
\* "SQL injection attempt" and the empty line match no entry.
PatternsMatching(text) ==
    CASE text = "failed login"                      -> {1}
      [] text = "multiple failed login attempts"    -> {1, 3}
      [] text = "successful login for unknown user" -> {4}
      [] text = "port scan detected"                -> {7}
      [] text = "malware detected"                  -> {8}
      [] OTHER                                      -> {}

\* logLine.includes('failed login')
IncludesFailedLogin(text) ==
    text \in {"failed login", "multiple failed login attempts"}

\* logLine.includes('successful login')
IncludesSuccessfulLogin(text) == text = "successful login for unknown user"

\* The mutant of extractAction that labels the remaining lines
\* access_sensitive.
ExtractActionSensitive(line, category) ==
    IF IncludesFailedLogin(line.text) THEN "failed_login"
    ELSE IF IncludesSuccessfulLogin(line.text) THEN "success_login"
    ELSE IF category = "RECONNAISSANCE" THEN "port_scan"
    ELSE "access_sensitive"

\* extractAction(logLine, category)
ExtractAction(line, category) ==
    IF IncludesFailedLogin(line.text) THEN "failed_login"
    ELSE IF IncludesSuccessfulLogin(line.text) THEN "success_login"
    ELSE IF category = "RECONNAISSANCE" THEN "port_scan"
    ELSE "unknown"

\* extractIP(logLine): the first IPv4 literal of the line, or null
ExtractIP(line) == line.ip

EmptyLine == [logTime |-> 0, text |-> "", ip |-> NoIP]

\* logData.split('\n'): the empty string splits into one empty line
SplitLines(data) == IF data.lines = <<>> THEN <<EmptyLine>> ELSE data.lines

\* contextLine.includes(line.substring(0, 20)): the first 20 characters of a
\* line are its ISO time, which another line contains when it carries the
\* same time.
IncludesPrefixOf(contextLine, line) ==
    contextLine.text # "" /\ contextLine.logTime = line.logTime

\* analyzeContext(line, previousLines, nextLines) for the line at place
\* index (1-based): previousLines = lines.slice(max(0, index - 5), index),
\* nextLines = lines.slice(index + 1, index + 6) in the code's 0-based places
AnalyzeContext(lines, index) ==
    LET around == {k \in 1..Len(lines) :
                      /\ k # index
                      /\ k >= index - 5
                      /\ k <= index + 5}
        similar == {k \in around : IncludesPrefixOf(lines[k], lines[index])}
    IN  [occurrences |-> Cardinality(similar),
         relatedEvents |-> Cardinality(similar)]

\* The categories getRecommendedActions has specific actions for.
ActionCategories ==
    {"AUTH", "INJECTION", "XSS", "RECONNAISSANCE", "MALWARE", "FILE_SYSTEM",
     "NETWORK", "DATABASE"}

\* getRecommendedActions(score, category): the action lists are named by the
\* tables' keys they are taken from
GetRecommendedActions(s, category) ==
    LET level == GetThreatLevel(s)
        base == IF level = "INFO" THEN "LOW" ELSE level
    IN  [immediate |-> base \in {"CRITICAL", "HIGH"},
         baseActions |-> base,
         categoryActions |->
             IF category \in ActionCategories /\ level # "INFO"
             THEN <<category, level>> ELSE <<>>]

\* analyzeLogs, lines 517-559: the body run for a hit of catalog entry k on
\* the line at place index; st holds the tracker's log and the threats
ProcessHit(lines, index, k, st, t) ==
    LET line == lines[index]
        pattern == SuspiciousPatterns[k]
        ip == ExtractIP(line)
        action == ExtractAction(line, pattern.category)
        log == IF ip # NoIP
               THEN TrackActivity(st.activityLog, ip, action, t, t)
               ELSE st.activityLog
        ctx == AnalyzeContext(lines, index)
        behavior == IF ip # NoIP THEN AnalyzePattern(log, ip, t) ELSE Null
        threatScore ==
            CalculateThreatScore(
                [severity |-> pattern.severity,
                 category |-> pattern.category,
                 timestamp |-> t],
                ctx, behavior)
    IN  [activityLog |-> log,
         threats |->
             Append(st.threats,
                 [message |-> line,
                  severity |-> pattern.severity,
                  category |-> pattern.category,
                  timestamp |-> t,
                  lineNumber |-> index,
                  context |-> ctx,
                  sourceIP |-> ip,
                  behaviorAnalysis |-> behavior,
                  threatScore |-> threatScore,
                  threatLevel |-> GetThreatLevel(threatScore),
                  recommendedActions |->
                      GetRecommendedActions(threatScore, pattern.category)])]

\* The mutant of the pattern loop that stops at the first matching entry.
RECURSIVE ProcessPatternsFirstMatch(_, _, _, _, _)
ProcessPatternsFirstMatch(lines, index, k, st, t) ==
    IF k > Len(SuspiciousPatterns) THEN st
    ELSE IF k \in PatternsMatching(lines[index].text)
         THEN ProcessHit(lines, index, k, st, t)
         ELSE ProcessPatternsFirstMatch(lines, index, k + 1, st, t)

\* analyzeLogs, lines 516-560: SUSPICIOUS_PATTERNS.forEach from entry k on
RECURSIVE ProcessPatterns(_, _, _, _, _)
ProcessPatterns(lines, index, k, st, t) ==
    IF k > Len(SuspiciousPatterns) THEN st
    ELSE IF k \in PatternsMatching(lines[index].text)
         THEN ProcessPatterns(lines, index, k + 1,
                              ProcessHit(lines, index, k, st, t), t)
         ELSE ProcessPatterns(lines, index, k + 1, st, t)

\* analyzeLogs, lines 511-561: lines.forEach from place index on
RECURSIVE ProcessLines(_, _, _, _)
ProcessLines(lines, index, st, t) ==
    IF index > Len(lines) THEN st
    ELSE ProcessLines(lines, index + 1,
                      ProcessPatterns(lines, index, 1, st, t), t)

\* The loops of analyzeLogs while the wall clock moves: clock[h] is what
\* new Date() and Date.now() read while hit number h is processed.
RECURSIVE ProcessPatternsAt(_, _, _, _, _)
ProcessPatternsAt(lines, index, k, st, clock) ==
    IF k > Len(SuspiciousPatterns) THEN st
    ELSE IF k \in PatternsMatching(lines[index].text)
         THEN ProcessPatternsAt(lines, index, k + 1,
                  ProcessHit(lines, index, k, st, clock[Len(st.threats) + 1]),
                  clock)
         ELSE ProcessPatternsAt(lines, index, k + 1, st, clock)

RECURSIVE ProcessLinesAt(_, _, _, _)
ProcessLinesAt(lines, index, st, clock) ==
    IF index > Len(lines) THEN st
    ELSE ProcessLinesAt(lines, index + 1,
                        ProcessPatternsAt(lines, index, 1, st, clock), clock)

\* Math.round(sum / n) for sum >= 0 and n > 0
RoundDiv(sum, n) == (2 * sum + n) \div (2 * n)

\* [...new Set(list)]: the distinct values in the order of first occurrence
RECURSIVE Distinct(_)
Distinct(list) ==
    IF list = <<>> THEN <<>>
    ELSE LET front == Distinct(SubSeq(list, 1, Len(list) - 1))
             last == list[Len(list)]
         IN  IF \E k \in 1..Len(front) : front[k] = last
             THEN front ELSE Append(front, last)

-----------------------------------------------------------------------------
(* MLPreprocessor.  A feature row is a function from column names to        *)
(* numbers; a column a row does not have is outside its domain.             *)

\* { ...f, ...g }
Merge(f, g) ==
    [k \in (DOMAIN f) \cup (DOMAIN g) |-> IF k \in DOMAIN g THEN g[k] ELSE f[k]]

\* {}
EmptyRow == [k \in {} |-> 0]

Flag(b) == IF b THEN 1 ELSE 0

\* this.categoryEncoding[category] || 0
CategoryEncoding(category) ==
    CASE category = "AUTH"           -> 1
      [] category = "INJECTION"      -> 2
      [] category = "XSS"            -> 3
      [] category = "RECONNAISSANCE" -> 4
      [] category = "MALWARE"        -> 5
      [] category = "FILE_SYSTEM"    -> 6
      [] category = "NETWORK"        -> 7
      [] category = "DATABASE"       -> 8
      [] OTHER                       -> 0

\* this.severityEncoding[severity] || 0
SeverityEncoding(severity) ==
    CASE severity = "CRITICAL" -> 4
      [] severity = "HIGH"     -> 3
      [] severity = "MEDIUM"   -> 2
      [] severity = "LOW"      -> 1
      [] OTHER                 -> 0

\* timestamp.getMinutes()
GetMinutes(t) == (t \div MsPerMinute) % 60

\* extractTimeFeatures(threat)
ExtractTimeFeatures(x) ==
    LET hour == GetHours(x.timestamp)
        day == GetDay(x.timestamp)
    IN  [hour |-> hour,
         minute |-> GetMinutes(x.timestamp),
         dayOfWeek |-> day,
         isWeekend |-> Flag(day \in {0, 6}),
         isBusinessHours |-> Flag(hour >= 9 /\ hour <= 17),
         isNightTime |-> Flag(hour >= 22 \/ hour <= 5)]

\* sourceIP.split('.') as numbers, for the addresses of the model
IPParts(ip) ==
    CASE ip = "10.0.0.5" -> <<10, 0, 0, 5>>
      [] ip = "10.0.0.6" -> <<10, 0, 0, 6>>

\* isPrivateIP(ip)
IsPrivateIP(ip) ==
    LET parts == IPParts(ip)
    IN  \/ parts[1] = 10
        \/ (parts[1] = 172 /\ parts[2] >= 16 /\ parts[2] <= 31)
        \/ (parts[1] = 192 /\ parts[2] = 168)

\* extractIPFeatures(threat)
ExtractIPFeatures(x) ==
    IF x.sourceIP = NoIP THEN EmptyRow
    ELSE [ipFirstOctet |-> IPParts(x.sourceIP)[1],
          ipSecondOctet |-> IPParts(x.sourceIP)[2],
          isPrivateIP |-> Flag(IsPrivateIP(x.sourceIP)),
          hasSourceIP |-> 1]

\* The number of characters of a line's message text.
TextLength(text) ==
    CASE text = "failed login"                      -> 12
      [] text = "port scan detected"                -> 18
      [] text = "SQL injection attempt"             -> 21
      [] text = "multiple failed login attempts"    -> 30
      [] text = "successful login for unknown user" -> 33
      [] OTHER                                      -> 0

\* line.trim().length: the 20 characters of the time, a blank, the text and,
\* with a source, " from " and the 8 characters of the address
MessageLength(line) ==
    IF line.text = "" THEN 0
    ELSE 20 + 1 + TextLength(line.text)
         + (IF line.ip = NoIP THEN 0 ELSE 6 + 8)

\* /error|fail|invalid/i.test(message)
ContainsError(line) ==
    line.text \in {"failed login", "multiple failed login attempts"}

\* extractTextFeatures(threat): no text of the model holds an administrator
\* name, an SQL keyword or a script tag
ExtractTextFeatures(x) ==
    [messageLength |-> MessageLength(x.message),
     containsError |-> Flag(ContainsError(x.message)),
     containsAdmin |-> 0,
     containsSQLKeywords |-> 0,
     containsScriptTags |-> 0]

\* extractBehaviorFeatures(threat)
ExtractBehaviorFeatures(x) ==
    IF x.behaviorAnalysis = Null THEN EmptyRow
    ELSE LET behavior == x.behaviorAnalysis
         IN  [frequencyRate |-> behavior.frequency.rate,
              isHighFrequency |-> Flag(behavior.frequency.isHighFrequency),
              hasSuspiciousTiming |-> Flag(behavior.unusualTiming.suspicious),
              hasRegularPattern |->
                  Flag("regularPattern" \in DOMAIN behavior.unusualTiming
                         /\ behavior.unusualTiming.regularPattern),
              hasSuspiciousSequence |->
                  Flag(behavior.suspiciousSequence.suspicious),
              behaviorRiskScore |-> behavior.riskScore]

\* extractContextFeatures(threat)
ExtractContextFeatures(x) ==
    [contextOccurrences |-> x.context.occurrences,
     hasRelatedEvents |-> Flag(x.context.relatedEvents > 0),
     relatedEventsCount |-> x.context.relatedEvents]

\* extractBasicFeatures(threat)
ExtractBasicFeatures(x) ==
    [categoryEncoded |-> CategoryEncoding(x.category),
     severityEncoded |-> SeverityEncoding(x.severity),
     threatScore |-> x.threatScore]

\* prepareForML, lines 36-43: the feature row of one threat
FeatureRow(x) ==
    Merge(ExtractTimeFeatures(x),
    Merge(ExtractIPFeatures(x),
    Merge(ExtractTextFeatures(x),
    Merge(ExtractBehaviorFeatures(x),
    Merge(ExtractContextFeatures(x), ExtractBasicFeatures(x))))))

\* The columns in the order the spreads insert them.
ColumnOrder ==
    <<"hour", "minute", "dayOfWeek", "isWeekend", "isBusinessHours",
      "isNightTime", "ipFirstOctet", "ipSecondOctet", "isPrivateIP",
      "hasSourceIP", "messageLength", "containsError", "containsAdmin",
      "containsSQLKeywords", "containsScriptTags", "frequencyRate",
      "isHighFrequency", "hasSuspiciousTiming", "hasRegularPattern",
      "hasSuspiciousSequence", "behaviorRiskScore", "contextOccurrences",
      "hasRelatedEvents", "relatedEventsCount", "categoryEncoded",
      "severityEncoded", "threatScore">>

\* The mutant of the column lookup that reads a missing column as 0.
ColumnValueOrZero(row, column) ==
    IF column \in DOMAIN row THEN Num(row[column]) ELSE Num(0)

\* f[column] as Math.min, Math.max and + take it: undefined converts to NaN
ColumnValue(row, column) ==
    IF column \in DOMAIN row THEN Num(row[column]) ELSE NaN

\* generateMetadata, lines 163-169: min, max and mean of one column; the mean
\* is kept as the sum and the number of values it is the quotient of.  The
\* standard deviation is left out.
ColumnStatistics(features, column) ==
    LET values == [k \in 1..Len(features) |-> ColumnValue(features[k], column)]
        ks == 1..Len(values)
    IN  IF \E k \in ks : values[k].isNaN
        THEN [min |-> NaN, max |-> NaN, sum |-> NaN, count |-> Len(values)]
        ELSE [min |-> Num(CHOOSE v \in {values[k].v : k \in ks} :
                              \A k \in ks : v <= values[k].v),
              max |-> Num(CHOOSE v \in {values[k].v : k \in ks} :
                              \A k \in ks : v >= values[k].v),
              sum |-> Num(SumSeq([k \in ks |-> values[k].v])),
              count |-> Len(values)]

\* generateMetadata(features): every value is a number, so no column is
\* categorical
GenerateMetadata(features) ==
    IF Len(features) = 0 THEN EmptyRow
    ELSE LET sampleFeature == features[1]
             numericColumns ==
                 SelectSeq(ColumnOrder,
                           LAMBDA c : c \in DOMAIN sampleFeature
                                      /\ sampleFeature[c] \notin {0, 1})
             binaryColumns ==
                 SelectSeq(ColumnOrder,
                           LAMBDA c : c \in DOMAIN sampleFeature
                                      /\ sampleFeature[c] \in {0, 1})
         IN  [totalFeatures |-> Len(features),
              numericColumns |-> numericColumns,
              categoricalColumns |-> <<>>,
              binaryColumns |-> binaryColumns,
              statistics |->
                  [c \in {numericColumns[k] : k \in 1..Len(numericColumns)} |->
                      ColumnStatistics(features, c)]]

\* prepareForML(threats)
PrepareForML(ts) ==
    LET features == [k \in 1..Len(ts) |-> FeatureRow(ts[k])]
    IN  [features |-> features, metadata |-> GenerateMetadata(features)]

-----------------------------------------------------------------------------
(* analyzeLogs, after the lines are processed.                              *)

NoThreatsDetected == [message |-> "No threats detected.", severity |-> "INFO"]

\* A value of logData that is not a string, and the string of given lines.
NotAString == [isString |-> FALSE, lines |-> <<>>]
StringOf(lines) == [isString |-> TRUE, lines |-> lines]

\* The mutant of the input test that takes every argument for a string.
IsStringAlways(data) == TRUE

\* typeof logData === 'string'
IsString(data) == data.isString

\* The mutant of the returned threat list that has no sentinel entry.
ReportedThreatsNoSentinel(found) == found

\* analyzeLogs, lines 570-572: the threat list of the returned report
ReportedThreats(found) ==
    IF Len(found) > 0 THEN found ELSE <<NoThreatsDetected>>

\* The mutant of summary.suspiciousIPs that looks only at the sources named
\* by the lines of the input.
SuspiciousIPsOfInput(log, lines, t) ==
    {ip \in Sources :
        /\ \E k \in 1..Len(lines) : lines[k].ip = ip
        /\ AnalyzePattern(log, ip, t).riskScore > 70}

\* analyzeLogs, lines 585-587: the keys of the tracker's map whose riskScore
\* exceeds 70; a source without records is no key, or a key of riskScore 0
SuspiciousIPs(log, lines, t) ==
    {ip \in Sources :
        /\ log[ip] # <<>>
        /\ AnalyzePattern(log, ip, t).riskScore > 70}

\* analyzeLogs, lines 563-591: what the call leaves and returns when the
\* loops left st and Date.now() = t
AfterLines(data, st, t) ==
    LET found == st.threats
        correlationResults == CorrelateThreats(found)
        mlFeatures == PrepareForML(found)
    IN  [activityLog |-> st.activityLog,
         threats |-> found,
         correlations |-> correlationResults,
         report |->
             [threats |-> ReportedThreats(found),
              correlations |-> correlationResults,
              mlFeatures |-> mlFeatures,
              summary |->
                  [totalThreats |-> Len(found),
                   highSeverity |->
                       Len(SelectSeq(found, LAMBDA x : x.severity = "HIGH")),
                   criticalThreats |->
                       Len(SelectSeq(found,
                                     LAMBDA x : x.threatLevel = "CRITICAL")),
                   averageThreatScore |->
                       IF Len(found) > 0
                       THEN RoundDiv(SumSeq([k \in 1..Len(found) |->
                                                found[k].threatScore]),
                                     Len(found))
                       ELSE 0,
                   categories |->
                       Distinct([k \in 1..Len(found) |-> found[k].category]),
                   correlationSummary |->
                       IF Len(found) > 0 THEN correlationResults.summary
                       ELSE Null,
                   mlMetadata |-> mlFeatures.metadata,
                   suspiciousIPs |->
                       SuspiciousIPs(st.activityLog, SplitLines(data), t)]]]

\* analyzeLogs(logData) when Date.now() = t and the tracker's log is log: the
\* log it leaves, the threats it collects and the report it returns.  The
\* clock does not move during the call.
AnalyzeLogs(data, log, t) ==
    AfterLines(data,
               ProcessLines(SplitLines(data), 1,
                            [activityLog |-> log, threats |-> <<>>], t),
               t)

\* analyzeLogs(logData) while the clock moves: clock[h] is the time during
\* hit number h, the last reading the time when the call returns.
AnalyzeLogsAt(data, log, clock) ==
    AfterLines(data,
               ProcessLinesAt(SplitLines(data), 1,
                              [activityLog |-> log, threats |-> <<>>], clock),
               clock[Len(clock)])

-----------------------------------------------------------------------------
(* The values the variables of a component keep while a specification      *)
(* exercises another component.                                            *)

IdleScore ==
    /\ threat = Null
    /\ context = Null
    /\ behaviorAnalysis = Null
    /\ contextScore = 0
    /\ score = 0
    /\ threatLevel = "INFO"

IdleTracker ==
    /\ now = 0
    /\ activityLog = NewActivityLog
    /\ analysis = Null

IdleCorrelation ==
    /\ threats = <<>>
    /\ correlations = Null

IdlePipeline ==
    /\ logData = StringOf(<<>>)
    /\ result = Null

\* patterns.js has been loaded with its own list.
IdleCatalog == catalog = LoadedCatalog

\* No HTTP request is in flight.
IdleServer ==
    /\ reqs = <<>>
    /\ jobs = <<>>
    /\ accesses = <<>>

-----------------------------------------------------------------------------
(* Specification SpecScore: calculateThreatScore and getThreatLevel applied  *)
(* to every threat, context and behaviour signal of the bounded input sets,  *)
(* as analyzeLogs applies them to each hit.                                  *)

MaxOccurrences == 5
MaxRelatedEvents == 6

\* CRITICAL is a severity the weight table does not list.
ScoreSeverities == {"CRITICAL", "HIGH", "MEDIUM", "LOW", "INFO"}

\* One category per distinct category weight; BRUTE_FORCE has none.
ScoreCategories == {"AUTH", "INJECTION", "RECONNAISSANCE", "BRUTE_FORCE"}

\* Thursday 12:00, Thursday 23:00, Saturday 03:00, Sunday 12:00
ScoreTimes == {12 * MsPerHour, 23 * MsPerHour,
               2 * MsPerDay + 3 * MsPerHour, 3 * MsPerDay + 12 * MsPerHour}

ScoreContexts ==
    {Null} \cup [occurrences : 0..MaxOccurrences,
                 relatedEvents : 0..MaxRelatedEvents]

\* The fields of analyzePattern's result that the scorer reads.
ScoreBehaviors ==
    {Null} \cup
    { [frequency |-> [isHighFrequency |-> hf],
       unusualTiming |-> [suspicious |-> ts, regularPattern |-> rp],
       suspiciousSequence |-> [suspicious |-> ss]] :
      hf \in BOOLEAN, ts \in BOOLEAN, rp \in BOOLEAN, ss \in BOOLEAN }

InitScore ==
    /\ pc = "input"
    /\ op = NoOp
    /\ threat \in [severity : ScoreSeverities, category : ScoreCategories,
                    timestamp : ScoreTimes]
    /\ context \in ScoreContexts
    /\ behaviorAnalysis \in ScoreBehaviors
    /\ contextScore = 0
    /\ score = 0
    /\ threatLevel = "INFO"
    /\ IdleTracker
    /\ IdleCorrelation
    /\ IdlePipeline
    /\ IdleCatalog
    /\ IdleServer

\* analyzeLogs, lines 529-555: the score of one hit and its level
ScoreThreat ==
    /\ pc = "input"
    /\ pc' = "done"
    /\ op' = [name |-> "calculateThreatScore", ip |-> "none"]
    /\ contextScore' = CalculateContextScore(context)
    /\ score' = CalculateThreatScore(threat, context, behaviorAnalysis)
    /\ threatLevel' = GetThreatLevel(score')
    /\ UNCHANGED <<threat, context, behaviorAnalysis>>
    /\ UNCHANGED trackerVars
    /\ UNCHANGED corrVars
    /\ UNCHANGED pipelineVars
    /\ UNCHANGED catalogVars
    /\ UNCHANGED serverVars

NextScore == ScoreThreat

SpecScore == InitScore /\ [][NextScore]_vars

\* C1: for every threat (any severity and category, also unknown ones), every
\* context and every behaviour signal (present or absent), the value
\* calculateThreatScore returns is an integer between 0 and 100.
C1_ScoreInRange == pc = "done" => score \in 0..100

\* C1 witness: a hit whose accumulated sum exceeds 100 has been scored.
C1_Witness ==
    /\ pc = "done"
    /\ RawThreatScore(threat, context, behaviorAnalysis) > 100
    /\ score = 100

\* C6 as claimed: the context part equals
\* min(occurrences*5, 20) + min(relatedEventCount*3, 15) for every context.
C6_ContextFormulaAsClaimed ==
    (pc = "done" /\ context # Null) =>
        contextScore = Min(context.occurrences * 5, 20)
                       + Min(context.relatedEvents * 3, 15)

\* C6 amended: the occurrence term min(occurrences*5, 20) is added only when
\* occurrences > 1; with occurrences <= 1 the context part is
\* min(relatedEventCount*3, 15) alone, and a missing context scores 0.
C6_ContextFormulaAmended ==
    pc = "done" =>
        IF context = Null THEN contextScore = 0
        ELSE IF context.occurrences > 1
             THEN contextScore = Min(context.occurrences * 5, 20)
                                 + Min(context.relatedEvents * 3, 15)
             ELSE contextScore = Min(context.relatedEvents * 3, 15)

\* C6 witness: one occurrence with one related event has been scored 3.
C6_Witness ==
    /\ pc = "done"
    /\ context # Null
    /\ context.occurrences = 1
    /\ context.relatedEvents = 1
    /\ contextScore = 3

\* C7: getThreatLevel gives CRITICAL for score >= 80, HIGH for 60..79, MEDIUM
\* for 40..59, LOW for 20..39 and INFO below, and no score below the scored
\* one gets a level of higher weight (CRITICAL > HIGH > MEDIUM > LOW > INFO).
C7_ThreatLevelThresholds ==
    pc = "done" =>
        /\ \/ score >= 80 /\ threatLevel = "CRITICAL"
           \/ score >= 60 /\ score < 80 /\ threatLevel = "HIGH"
           \/ score >= 40 /\ score < 60 /\ threatLevel = "MEDIUM"
           \/ score >= 20 /\ score < 40 /\ threatLevel = "LOW"
           \/ score < 20 /\ threatLevel = "INFO"
        /\ \A b \in 0..score :
               GetThreatLevelWeight(GetThreatLevel(b))
                   <= GetThreatLevelWeight(threatLevel)
        /\ \A a \in score..100 :
               GetThreatLevelWeight(GetThreatLevel(a))
                   >= GetThreatLevelWeight(threatLevel)

\* C7 witness: a hit scored exactly at a threshold has been classified.
C7_Witness == pc = "done" /\ score = 60 /\ threatLevel = "HIGH"

-----------------------------------------------------------------------------
(* Specification SpecCorrelation: correlateThreats applied to every threat  *)
(* list of the bounded input set.                                           *)

MaxThreats == 3

CorrCategories == {"AUTH", "RECONNAISSANCE", "MALWARE"}
CorrTimes == {0, 7 * MsPerMinute, 20 * MsPerMinute}
CorrSources == {NoIP, "10.0.0.5"}
CorrLevels == {"HIGH"}

CorrThreats ==
    [category : CorrCategories, timestamp : CorrTimes,
     sourceIP : CorrSources, threatLevel : CorrLevels]

InitCorrelation ==
    /\ pc = "input"
    /\ op = NoOp
    /\ threats \in UNION {[1..n -> CorrThreats] : n \in 0..MaxThreats}
    /\ correlations = Null
    /\ IdleScore
    /\ IdleTracker
    /\ IdlePipeline
    /\ IdleCatalog
    /\ IdleServer

\* correlationEngine.correlateThreats(threats)
DoCorrelateThreats ==
    /\ pc = "input"
    /\ pc' = "done"
    /\ op' = [name |-> "correlateThreats", ip |-> "none"]
    /\ correlations' = CorrelateThreats(threats)
    /\ UNCHANGED threats
    /\ UNCHANGED scoreVars
    /\ UNCHANGED catalogVars
    /\ UNCHANGED trackerVars
    /\ UNCHANGED pipelineVars
    /\ UNCHANGED serverVars

NextCorrelation == DoCorrelateThreats

SpecCorrelation == InitCorrelation /\ [][NextCorrelation]_vars

\* The number of places at which position idx stands in one group.
PlacesInGroup(idx, g) ==
    (IF g.primaryThreat = idx THEN 1 ELSE 0)
    + Len(SelectSeq(g.relatedThreats, LAMBDA r : r = idx))

\* The number of places at which position idx stands over all groups.
PlacesInGroups(idx, groups) ==
    SumSeq([k \in 1..Len(groups) |-> PlacesInGroup(idx, groups[k])])

\* C4: for every threat list passed to correlateThreats, every threat (a
\* position of the list) stands at no more than one place over all groups,
\* counting primaryThreat and relatedThreats of every group.
C4_AtMostOneGroup ==
    pc = "done" =>
        \A idx \in 1..Len(threats) :
            PlacesInGroups(idx, correlations.correlatedEvents) <= 1

\* C4 witness: a threat correlated with two earlier threats, which are not
\* correlated with each other, has been grouped.
C4_Witness ==
    /\ pc = "done"
    /\ Len(threats) = 3
    /\ CheckCorrelation(threats[2], threats[3]).isCorrelated
    /\ CheckCorrelation(threats[1], threats[3]).isCorrelated
    /\ ~CheckCorrelation(threats[1], threats[2]).isCorrelated
    /\ PlacesInGroups(3, correlations.correlatedEvents) = 1

\* The threat at position idx is correlated with no other threat of the
\* list, in either argument order.
Uncorrelated(ts, idx) ==
    \A other \in 1..Len(ts) :
        other # idx =>
            /\ ~CheckCorrelation(ts[idx], ts[other]).isCorrelated
            /\ ~CheckCorrelation(ts[other], ts[idx]).isCorrelated

\* C5: a threat for which checkCorrelation is false against every other
\* threat of the list, in both argument orders, is neither the primary nor a
\* related threat of any group, and every group has a related threat.
C5_UncorrelatedInNoGroup ==
    pc = "done" =>
        /\ \A idx \in 1..Len(threats) :
               Uncorrelated(threats, idx) =>
                   PlacesInGroups(idx, correlations.correlatedEvents) = 0
        /\ \A k \in 1..Len(correlations.correlatedEvents) :
               Len(correlations.correlatedEvents[k].relatedThreats) >= 1

\* C5 witness: a list with an uncorrelated threat has produced a group.
C5_Witness ==
    /\ pc = "done"
    /\ Len(threats) = 3
    /\ \E idx \in 1..Len(threats) : Uncorrelated(threats, idx)
    /\ Len(correlations.correlatedEvents) = 1

\* The window the claim names for a threat of the given category: that of
\* the category's rule, 15 minutes without a rule.
ClaimedWindow(category) ==
    CASE category = "AUTH"           -> 5 * MsPerMinute
      [] category = "RECONNAISSANCE" -> 10 * MsPerMinute
      [] category = "INJECTION"      -> 5 * MsPerMinute
      [] OTHER                       -> 15 * MsPerMinute

\* The three conditions of the claim for the pair (t, u).
ClaimedTemporal(t, u) ==
    \/ (t.timestamp >= u.timestamp
           /\ t.timestamp - u.timestamp <= ClaimedWindow(t.category))
    \/ (u.timestamp >= t.timestamp
           /\ u.timestamp - t.timestamp <= ClaimedWindow(t.category))

ClaimedSource(t, u) == t.sourceIP # NoIP /\ t.sourceIP = u.sourceIP

ClaimedCategorical(t, u) ==
    \/ t.category = "AUTH" /\ u.category \in {"RECONNAISSANCE", "INJECTION"}
    \/ t.category = "RECONNAISSANCE"
          /\ u.category \in {"INJECTION", "XSS", "AUTH"}
    \/ t.category = "INJECTION" /\ u.category \in {"XSS", "AUTH"}

\* The labels of a type list.
Labels(type) == {type[k] : k \in 1..Len(type)}

\* checkCorrelation(t, u) answers as the claim says.
AsClaimed(c, t, u) ==
    /\ c.isCorrelated <=>
           (ClaimedTemporal(t, u) \/ ClaimedSource(t, u)
              \/ ClaimedCategorical(t, u))
    /\ ("temporal" \in Labels(c.type)) <=> ClaimedTemporal(t, u)
    /\ ("source" \in Labels(c.type)) <=> ClaimedSource(t, u)
    /\ ("categorical" \in Labels(c.type)) <=> ClaimedCategorical(t, u)
    /\ Labels(c.type) \subseteq {"temporal", "source", "categorical"}

\* C12: for every ordered pair (t, u) of threats of the list, checkCorrelation
\* reports isCorrelated exactly when the time difference is within the window
\* of t's category, or both have the same non-null source, or u's category
\* is related to t's, and its type list names exactly the conditions that
\* hold; the type list a group records for a related threat is that of
\* (primary, related) and names at least one condition.
C12_CheckCorrelationConditions ==
    pc = "done" =>
        /\ \A i \in 1..Len(threats), j \in 1..Len(threats) :
               AsClaimed(CheckCorrelation(threats[i], threats[j]),
                         threats[i], threats[j])
        /\ \A k \in 1..Len(correlations.correlatedEvents) :
               LET g == correlations.correlatedEvents[k]
               IN  \A r \in 1..Len(g.relatedThreats) :
                       /\ g.correlationType[r] # <<>>
                       /\ AsClaimed([isCorrelated |-> TRUE,
                                     type |-> g.correlationType[r]],
                                    threats[g.primaryThreat],
                                    threats[g.relatedThreats[r]])

\* C12 witness: an AUTH threat has been grouped with a RECONNAISSANCE threat
\* seven minutes later from the same source, outside AUTH's window but
\* inside RECONNAISSANCE's.
C12_Witness ==
    /\ pc = "done"
    /\ Len(threats) = 2
    /\ threats[1].category = "AUTH" /\ threats[1].timestamp = 0
    /\ threats[2].category = "RECONNAISSANCE"
    /\ threats[2].timestamp = 7 * MsPerMinute
    /\ Len(correlations.correlatedEvents) = 1
    /\ correlations.correlatedEvents[1].correlationType
           = << <<"source", "categorical">> >>

\* The number of related threats, over all groups, whose type list holds
\* the label.
LabelCount(groups, label) ==
    Len(SelectSeq(AllCorrelationTypes(groups),
                  LAMBDA type : label \in Labels(type)))

\* C15 as claimed: summary.mostCommonCorrelationType is 'none' when there is
\* no group; otherwise it is one of the labels 'temporal', 'source',
\* 'categorical', and no label occurs more often over the related threats of
\* all groups.
C15_MostCommonIsOneLabel ==
    (pc = "done" /\ Len(threats) > 0) =>
        LET groups == correlations.correlatedEvents
            most == correlations.summary.mostCommonCorrelationType
        IN  IF Len(groups) = 0 THEN most = <<"none">>
            ELSE /\ most \in {<<"temporal">>, <<"source">>, <<"categorical">>}
                 /\ \A label \in {"temporal", "source", "categorical"} :
                        LabelCount(groups, label) <= LabelCount(groups, most[1])

-----------------------------------------------------------------------------
(* Specification SpecSequence: correlateThreats applied to threat lists     *)
(* whose timestamps lie on both sides of the sequence template's window.    *)

MaxSeqThreats == 3

SeqCategories == {"RECONNAISSANCE", "AUTH", "XSS", "MALWARE"}
SeqTimes == {0, 30 * MsPerMinute, 31 * MsPerMinute}

SeqThreats ==
    [category : SeqCategories, timestamp : SeqTimes,
     sourceIP : {NoIP}, threatLevel : {"HIGH"}]

InitSequence ==
    /\ pc = "input"
    /\ op = NoOp
    /\ threats \in UNION {[1..n -> SeqThreats] : n \in 0..MaxSeqThreats}
    /\ correlations = Null
    /\ IdleScore
    /\ IdleTracker
    /\ IdlePipeline
    /\ IdleCatalog
    /\ IdleServer

SpecSequence == InitSequence /\ [][NextCorrelation]_vars

\* Position p comes before position q in timestamp order; threats of equal
\* timestamp keep the order of the list.
Precedes(ts, p, q) ==
    \/ ts[p].timestamp < ts[q].timestamp
    \/ ts[p].timestamp = ts[q].timestamp /\ p < q

\* The threat at p is a RECONNAISSANCE threat followed, in timestamp order
\* and at most 30 minutes later, by the threat at q of category INJECTION,
\* XSS or AUTH.
ReconFollowedBy(ts, p, q) ==
    /\ Precedes(ts, p, q)
    /\ ts[p].category = "RECONNAISSANCE"
    /\ ts[q].category \in {"INJECTION", "XSS", "AUTH"}
    /\ ts[q].timestamp - ts[p].timestamp <= 30 * MsPerMinute

\* The places of the reported matches of the given name.
MatchesNamed(patterns, name) ==
    {k \in 1..Len(patterns) : patterns[k].name = name}

\* C11: correlateThreats reports the sequence template exactly when, in
\* timestamp order (threats of equal timestamp in list order), some
\* RECONNAISSANCE threat is followed at most 30 minutes later by a threat of
\* category INJECTION, XSS or AUTH; it is reported once, with confidence
\* HIGH, and its threats are the earliest such RECONNAISSANCE threat and the
\* first qualifying threat after it.
C11_SequenceTemplate ==
    pc = "done" =>
        LET ts == threats
            places == 1..Len(ts)
            found == MatchesNamed(correlations.patterns,
                                  "Reconnaissance followed by Attack")
        IN  /\ (found # {}) <=>
                   (\E p \in places, q \in places : ReconFollowedBy(ts, p, q))
            /\ Cardinality(found) <= 1
            /\ \A k \in found :
                   LET m == correlations.patterns[k]
                       p == m.threats[1]
                       q == m.threats[2]
                   IN  /\ m.confidence = "HIGH"
                       /\ Len(m.threats) = 2
                       /\ ReconFollowedBy(ts, p, q)
                       /\ \A p2 \in places, q2 \in places :
                              ReconFollowedBy(ts, p2, q2) =>
                                  p2 = p \/ Precedes(ts, p, p2)
                       /\ \A q2 \in places :
                              ReconFollowedBy(ts, p, q2) =>
                                  q2 = q \/ Precedes(ts, q, q2)

\* C11 witness: a list given out of timestamp order, in which the earliest
\* RECONNAISSANCE threat has a follower 31 minutes later and one exactly 30
\* minutes later, has been matched.
C11_Witness ==
    /\ pc = "done"
    /\ Len(threats) = 3
    /\ threats[1].category = "AUTH" /\ threats[1].timestamp = 31 * MsPerMinute
    /\ threats[2].category = "XSS" /\ threats[2].timestamp = 30 * MsPerMinute
    /\ threats[3].category = "RECONNAISSANCE" /\ threats[3].timestamp = 0
    /\ \E k \in 1..Len(correlations.patterns) :
           correlations.patterns[k].threats = <<3, 2>>

-----------------------------------------------------------------------------
(* Specification SpecRiskLevel: correlateThreats applied to threat lists    *)
(* of mixed threat levels, some threats carrying none.                      *)

MaxLevelThreats == 3

ThreatLevels == {"CRITICAL", "HIGH", "MEDIUM", "LOW", "INFO"}
LevelTimes == {0, 10 * MsPerMinute, 20 * MsPerMinute}

LevelThreats ==
    [category : {"MALWARE"}, timestamp : LevelTimes,
     sourceIP : {NoIP}, threatLevel : ThreatLevels \cup {NoLevel}]

InitRiskLevel ==
    /\ pc = "input"
    /\ op = NoOp
    /\ threats \in UNION {[1..n -> LevelThreats] : n \in 0..MaxLevelThreats}
    /\ correlations = Null
    /\ IdleScore
    /\ IdleTracker
    /\ IdlePipeline
    /\ IdleCatalog
    /\ IdleServer

SpecRiskLevel == InitRiskLevel /\ [][NextCorrelation]_vars

\* The positions of a group's threats: the primary and the related ones.
GroupMembers(g) ==
    {g.primaryThreat} \cup {g.relatedThreats[r] : r \in 1..Len(g.relatedThreats)}

\* The rank of a level in CRITICAL > HIGH > MEDIUM > LOW > INFO.
LevelRank(level) ==
    CASE level = "CRITICAL" -> 5
      [] level = "HIGH"     -> 4
      [] level = "MEDIUM"   -> 3
      [] level = "LOW"      -> 2
      [] level = "INFO"     -> 1

\* C13: in every emitted group whose threats all carry a threat level, the
\* riskLevel is the level of one of the group's threats, primary or related,
\* and no threat of the group has a level ranked higher in
\* CRITICAL > HIGH > MEDIUM > LOW > INFO.
C13_GroupRiskLevelIsHighest ==
    pc = "done" =>
        \A k \in 1..Len(correlations.correlatedEvents) :
            LET g == correlations.correlatedEvents[k]
                members == GroupMembers(g)
            IN  (\A p \in members : threats[p].threatLevel \in ThreatLevels) =>
                    /\ \E p \in members : threats[p].threatLevel = g.riskLevel
                    /\ \A p \in members :
                           LevelRank(threats[p].threatLevel)
                               <= LevelRank(g.riskLevel)

\* C13 witness: a group whose highest level is carried by its second related
\* threat, above the primary's and the first related threat's, was emitted.
C13_Witness ==
    /\ pc = "done"
    /\ Len(threats) = 3
    /\ threats[1].threatLevel = "LOW"
    /\ threats[2].threatLevel = "INFO"
    /\ threats[3].threatLevel = "CRITICAL"
    /\ Len(correlations.correlatedEvents) = 1
    /\ correlations.correlatedEvents[1].relatedThreats = <<2, 3>>
    /\ correlations.correlatedEvents[1].riskLevel = "CRITICAL"

-----------------------------------------------------------------------------
(* Specification SpecFrequency: correlateThreats applied to threat lists    *)
(* long enough for the frequency template.                                  *)

MaxFreqThreats == 6

FreqCategories == {"AUTH", "MALWARE"}
FreqTimes == {0, 5 * MsPerMinute, 6 * MsPerMinute}

FreqThreats ==
    [category : FreqCategories, timestamp : FreqTimes,
     sourceIP : {NoIP}, threatLevel : {"HIGH"}]

InitFrequency ==
    /\ pc = "input"
    /\ op = NoOp
    /\ threats \in UNION {[1..n -> FreqThreats] : n \in 0..MaxFreqThreats}
    /\ correlations = Null
    /\ IdleScore
    /\ IdleTracker
    /\ IdlePipeline
    /\ IdleCatalog
    /\ IdleServer

SpecFrequency == InitFrequency /\ [][NextCorrelation]_vars

\* The AUTH threats whose timestamp lies within 5 minutes (inclusive) after
\* that of the threat at s.
AuthWithinFiveMinutes(ts, s) ==
    {u \in 1..Len(ts) :
        /\ ts[u].category = "AUTH"
        /\ ts[u].timestamp >= ts[s].timestamp
        /\ ts[u].timestamp - ts[s].timestamp <= 5 * MsPerMinute}

\* The threat at s is an AUTH threat that starts a window of at least five.
BruteForceStart(ts, s) ==
    /\ ts[s].category = "AUTH"
    /\ Cardinality(AuthWithinFiveMinutes(ts, s)) >= 5

\* The AUTH threats of the window built from start s: s and the AUTH threats
\* after it in timestamp order, up to a delta of 5 minutes.
WindowOf(ts, s) ==
    {s} \cup {u \in AuthWithinFiveMinutes(ts, s) : Precedes(ts, s, u)}

\* C14: correlateThreats reports 'Brute Force Attack' exactly when at least
\* five AUTH threats have their timestamps within 5 minutes (inclusive)
\* after the timestamp of one of them; it is reported once, with confidence
\* HIGH, and its threats are, in timestamp order, the window built forward
\* from the first start threat whose window holds at least five.
C14_BruteForceTemplate ==
    pc = "done" =>
        LET ts == threats
            places == 1..Len(ts)
            found == MatchesNamed(correlations.patterns, "Brute Force Attack")
        IN  /\ (found # {}) <=> (\E s \in places : BruteForceStart(ts, s))
            /\ Cardinality(found) <= 1
            /\ \A k \in found :
                   LET m == correlations.patterns[k]
                       w == m.threats
                       s == w[1]
                   IN  /\ m.confidence = "HIGH"
                       /\ Len(w) >= 5
                       /\ {w[n] : n \in 1..Len(w)} = WindowOf(ts, s)
                       /\ Cardinality(WindowOf(ts, s)) = Len(w)
                       /\ \A n \in 1..(Len(w) - 1) :
                              Precedes(ts, w[n], w[n + 1])
                       /\ \A s2 \in places :
                              (ts[s2].category = "AUTH"
                                 /\ Cardinality(WindowOf(ts, s2)) >= 5) =>
                                  s2 = s \/ Precedes(ts, s, s2)

\* C14 witness: five AUTH threats, the last exactly 5 minutes after the
\* first, have been matched in a list that holds a sixth threat outside
\* their window.
C14_Witness ==
    /\ pc = "done"
    /\ Len(threats) = 6
    /\ \E k \in 1..Len(correlations.patterns) :
           LET m == correlations.patterns[k]
           IN  /\ m.name = "Brute Force Attack"
               /\ Len(m.threats) = 5
               /\ threats[m.threats[1]].timestamp = 0
               /\ threats[m.threats[5]].timestamp = 5 * MsPerMinute
    /\ \E u \in 1..6 : threats[u].timestamp = 6 * MsPerMinute

-----------------------------------------------------------------------------
(* Specification SpecTracker: one BehaviorAnalyzer driven through its       *)
(* methods trackActivity and analyzePattern while the wall clock advances.  *)

MaxLog == 2
MaxHours == 1

\* The clock starts at 01:00 local time.
StartTime == MsPerHour

\* The action labels passed to trackActivity.
TrackActions == {"failed_login", "port_scan"}

\* The timestamps passed to trackActivity at wall-clock time t: the current
\* time, as analyzeLogs passes it, or one that is already an hour old.
TrackTimestamps(t) == {t, t - MsPerHour}

\* The clock moves half a second past the hour, then on to the next hour.
ClockStep(t) == IF t % MsPerHour = 0 THEN 500 ELSE MsPerHour - 500

InitTracker ==
    /\ pc = "idle"
    /\ op = NoOp
    /\ now = StartTime
    /\ activityLog = NewActivityLog
    /\ analysis = Null
    /\ IdleScore
    /\ IdleCorrelation
    /\ IdlePipeline
    /\ IdleCatalog
    /\ IdleServer

\* behaviorAnalyzer.trackActivity(ip, action, timestamp)
DoTrackActivity(ip, action, timestamp) ==
    /\ activityLog' = TrackActivity(activityLog, ip, action, timestamp, now)
    /\ Len(activityLog'[ip]) <= MaxLog
    /\ op' = [name |-> "trackActivity", ip |-> ip]
    /\ analysis' = Null
    /\ UNCHANGED <<pc, now>>
    /\ UNCHANGED scoreVars
    /\ UNCHANGED catalogVars
    /\ UNCHANGED corrVars
    /\ UNCHANGED pipelineVars
    /\ UNCHANGED serverVars

\* behaviorAnalyzer.analyzePattern(ip)
DoAnalyzePattern(ip) ==
    /\ analysis' = AnalyzePattern(activityLog, ip, now)
    /\ op' = [name |-> "analyzePattern", ip |-> ip]
    /\ UNCHANGED <<pc, now, activityLog>>
    /\ UNCHANGED scoreVars
    /\ UNCHANGED catalogVars
    /\ UNCHANGED corrVars
    /\ UNCHANGED pipelineVars
    /\ UNCHANGED serverVars

\* Time passes between two calls.
Tick ==
    /\ now + ClockStep(now) <= StartTime + MaxHours * MsPerHour
    /\ now' = now + ClockStep(now)
    /\ op' = [name |-> "tick", ip |-> "none"]
    /\ analysis' = Null
    /\ UNCHANGED <<pc, activityLog>>
    /\ UNCHANGED scoreVars
    /\ UNCHANGED catalogVars
    /\ UNCHANGED corrVars
    /\ UNCHANGED pipelineVars
    /\ UNCHANGED serverVars

NextTracker ==
    \/ \E ip \in Sources, action \in TrackActions,
          timestamp \in TrackTimestamps(now) :
           DoTrackActivity(ip, action, timestamp)
    \/ \E ip \in Sources : DoAnalyzePattern(ip)
    \/ Tick

SpecTracker == InitTracker /\ [][NextTracker]_vars

\* The records of a list that are less than one hour old at time t.
YoungerThanOneHour(activities, t) ==
    SelectSeq(activities, LAMBDA a : a.timestamp > t - MsPerHour)

\* C2 as claimed: analyzePattern(source) called at time T computes its
\* signals only from the records whose timestamp is later than T minus one
\* hour, whether or not trackActivity ran since the records grew older.
C2_AnalyzeIgnoresOldRecords ==
    op.name = "analyzePattern" =>
        analysis = AnalyzeActivities(
                       YoungerThanOneHour(activityLog[op.ip], now), now)

\* Two consecutive records of the list are less than one second apart.
HasRapidSuccession(activities) ==
    \E i \in 2..Len(activities) :
        activities[i].timestamp - activities[i - 1].timestamp < MsPerSecond

\* C3 as claimed: whenever a source has two consecutive records less than
\* one second apart, the signal analyzePattern returns for it has
\* details.rapidSuccession = true and suspicious = true.
C3_RapidSuccessionReported ==
    (op.name = "analyzePattern" /\ HasRapidSuccession(activityLog[op.ip])) =>
        /\ analysis.suspiciousSequence.details.rapidSuccession
        /\ analysis.suspiciousSequence.suspicious

\* Some record of the source's list before the step is gone after it.
RecordRemoved(ip) ==
    \E i \in 1..Len(activityLog[ip]) :
        \A j \in 1..Len(activityLog'[ip]) :
            activityLog'[ip][j] # activityLog[ip][i]

\* C8, first part: right after trackActivity(source, ...) returns at time T,
\* every record stored for that source is later than T minus one hour.
C8_FreshAfterTrack ==
    op.name = "trackActivity" =>
        \A i \in 1..Len(activityLog[op.ip]) :
            activityLog[op.ip][i].timestamp > now - MsPerHour

\* C8, second part: a step that removes a record of a source is a
\* trackActivity call for that source.
C8_RemovedOnlyByTrack ==
    \A ip \in Sources :
        RecordRemoved(ip) => op' = [name |-> "trackActivity", ip |-> ip]

\* C8: both parts.
C8_TrackPrunes == []C8_FreshAfterTrack /\ [][C8_RemovedOnlyByTrack]_vars

\* C8 witness: trackActivity has just returned having dropped every record
\* of the source, the appended one included.
C8_Witness ==
    /\ op.name = "trackActivity"
    /\ activityLog[op.ip] = <<>>
    /\ \E ip \in Sources : Len(activityLog[ip]) >= 2

-----------------------------------------------------------------------------
(* Specification SpecBurst: analyzePattern called on a tracker that holds,   *)
(* for one source, a burst of evenly spaced records of one action followed  *)
(* by a few further records; the other source has none.                     *)

MaxBurst == 31
MaxTail == 2

\* The spacing of the records of a burst: none, one second, three seconds.
BurstGaps == {0, MsPerSecond, 3 * MsPerSecond}

\* n records of the action, the last at time t, gap apart.
Burst(n, action, gap, t) ==
    [k \in 1..n |-> [action |-> action, timestamp |-> t - gap * (n - k)]]

\* The records tracked after the burst.
TailRecords(t) ==
    [action : {"failed_login", "success_login"},
     timestamp : {t, t - 5 * MsPerSecond}]

InitBurst ==
    /\ pc = "idle"
    /\ op = NoOp
    /\ now = StartTime
    /\ \E n \in 0..MaxBurst, action \in TrackActions, gap \in BurstGaps,
          m \in 0..MaxTail :
           \E tail \in [1..m -> TailRecords(now)] :
               activityLog =
                   [NewActivityLog EXCEPT
                       !["10.0.0.5"] = Burst(n, action, gap, now) \o tail]
    /\ analysis = Null
    /\ IdleScore
    /\ IdleCorrelation
    /\ IdlePipeline
    /\ IdleCatalog
    /\ IdleServer

NextBurst == \E ip \in Sources : DoAnalyzePattern(ip)

SpecBurst == InitBurst /\ [][NextBurst]_vars

\* The number of the records whose timestamp lies in the 60 seconds up to t.
RecordsInLastMinute(activities, t) ==
    Cardinality({i \in 1..Len(activities) :
                    /\ activities[i].timestamp <= t
                    /\ t - activities[i].timestamp <= 60 * MsPerSecond})

\* C16: the riskScore analyzePattern returns for a source is min(100, 30 if
\* more than 30 of its records lie in the last 60 seconds, plus 25 if the
\* timing signal is suspicious, plus 25 if the sequence signal is
\* suspicious, plus min(20, number of records)); it lies in 0..100 and is 0
\* for a source without records.
C16_RiskScoreFormula ==
    op.name = "analyzePattern" =>
        LET activities == activityLog[op.ip]
            sum == (IF RecordsInLastMinute(activities, now) > 30
                    THEN 30 ELSE 0)
                   + (IF analysis.unusualTiming.suspicious THEN 25 ELSE 0)
                   + (IF analysis.suspiciousSequence.suspicious THEN 25 ELSE 0)
                   + (IF Len(activities) < 20 THEN Len(activities) ELSE 20)
        IN  /\ analysis.riskScore = (IF sum < 100 THEN sum ELSE 100)
            /\ analysis.riskScore \in 0..100
            /\ Len(activities) = 0 => analysis.riskScore = 0

\* C16 witness: a source with more than 30 records in the last minute, more
\* than 20 records in all and only one suspicious signal has been analysed.
C16_Witness ==
    /\ op.name = "analyzePattern"
    /\ analysis.frequency.isHighFrequency
    /\ ~analysis.unusualTiming.suspicious
    /\ analysis.suspiciousSequence.suspicious
    /\ analysis.riskScore = 75

-----------------------------------------------------------------------------
(* Specification SpecPipeline: analyzeLogs called once, in a process that   *)
(* has just loaded the module, on every input of the bounded input set.     *)

MaxLines == 3

\* The source of a line: none, or one address.
LineSources == {NoIP, "10.0.0.5"}

\* The times written in the lines: ten minutes apart.
LogTimes == {0, 10 * MsPerMinute}

LogLines == [logTime : LogTimes, text : LineTexts, ip : LineSources]

LogInputs ==
    {NotAString}
    \cup {StringOf(lines) :
             lines \in UNION {[1..n -> LogLines] : n \in 0..MaxLines}}

InitPipeline ==
    /\ pc = "input"
    /\ op = NoOp
    /\ logData \in LogInputs
    /\ result = Null
    /\ now = StartTime
    /\ activityLog = NewActivityLog
    /\ analysis = Null
    /\ IdleScore
    /\ IdleCorrelation
    /\ IdleCatalog
    /\ IdleServer

\* analyzeLogs(logData), lines 504-506: the argument is no string
AnalyzeLogsThrows ==
    /\ pc = "input"
    /\ ~IsString(logData)
    /\ pc' = "done"
    /\ op' = [name |-> "analyzeLogs", ip |-> "none"]
    /\ result' = [error |-> "Log data must be a string"]
    /\ UNCHANGED <<logData, threats, correlations>>
    /\ UNCHANGED scoreVars
    /\ UNCHANGED catalogVars
    /\ UNCHANGED trackerVars
    /\ UNCHANGED serverVars

\* analyzeLogs(logData), lines 508-591
AnalyzeLogsReturns ==
    /\ pc = "input"
    /\ IsString(logData)
    /\ LET run == AnalyzeLogs(logData, activityLog, now)
       IN  /\ activityLog' = run.activityLog
           /\ threats' = run.threats
           /\ correlations' = run.correlations
           /\ result' = run.report
    /\ pc' = "done"
    /\ op' = [name |-> "analyzeLogs", ip |-> "none"]
    /\ UNCHANGED <<logData, now, analysis>>
    /\ UNCHANGED scoreVars
    /\ UNCHANGED catalogVars
    /\ UNCHANGED serverVars

NextPipeline == AnalyzeLogsThrows \/ AnalyzeLogsReturns

SpecPipeline == InitPipeline /\ [][NextPipeline]_vars

\* The input is a RECONNAISSANCE line followed by an injection line whose
\* written time is ten minutes later.
ReconThenInjection(data) ==
    /\ data.isString
    /\ Len(data.lines) = 2
    /\ data.lines[1].text = "port scan detected"
    /\ data.lines[2].text = "SQL injection attempt"
    /\ data.lines[2].logTime - data.lines[1].logTime = 10 * MsPerMinute

\* C10 as claimed: when the input is one RECONNAISSANCE line followed, ten
\* minutes later by its written time, by one injection line,
\* correlations.patterns holds a match named 'Reconnaissance followed by
\* Attack' with confidence HIGH whose two threats are those two lines.
C10_ReconThenInjectionMatched ==
    (pc = "done" /\ ReconThenInjection(logData)) =>
        \E k \in 1..Len(result.correlations.patterns) :
            LET m == result.correlations.patterns[k]
            IN  /\ m.name = "Reconnaissance followed by Attack"
                /\ m.confidence = "HIGH"
                /\ Len(m.threats) = 2
                /\ threats[m.threats[1]].lineNumber = 1
                /\ threats[m.threats[2]].lineNumber = 2

\* C17 as claimed: prepareForML returns one feature row per threat, in the
\* order of the threats, and for every column of metadata.numericColumns the
\* statistics satisfy min <= mean <= max (the mean being sum / count), also
\* when threats with and without a source IP are mixed.
C17_FeatureStatisticsOrdered ==
    (pc = "done" /\ logData.isString /\ Len(threats) > 0) =>
        LET ml == result.mlFeatures
            columns == ml.metadata.numericColumns
        IN  /\ Len(ml.features) = Len(threats)
            /\ \A k \in 1..Len(threats) : ml.features[k] = FeatureRow(threats[k])
            /\ \A c \in 1..Len(columns) :
                   LET st == ml.metadata.statistics[columns[c]]
                   IN  /\ ~st.min.isNaN /\ ~st.sum.isNaN /\ ~st.max.isNaN
                       /\ st.min.v * st.count <= st.sum.v
                       /\ st.sum.v <= st.max.v * st.count

-----------------------------------------------------------------------------
(* Specification SpecHits: analyzeLogs called once, in a process that has   *)
(* just loaded the module, on inputs made of lines that one pattern, two    *)
(* patterns or (the empty string) no pattern matches.                       *)

MaxHitLines == 3

HitLines ==
    [logTime : {0},
     text : {"failed login", "port scan detected",
             "multiple failed login attempts"},
     ip : LineSources]

HitInputs ==
    {NotAString}
    \cup {StringOf(lines) :
             lines \in UNION {[1..n -> HitLines] : n \in 0..MaxHitLines}}

InitHits ==
    /\ pc = "input"
    /\ op = NoOp
    /\ logData \in HitInputs
    /\ result = Null
    /\ now = StartTime
    /\ activityLog = NewActivityLog
    /\ analysis = Null
    /\ IdleScore
    /\ IdleCorrelation
    /\ IdleCatalog
    /\ IdleServer

SpecHits == InitHits /\ [][NextPipeline]_vars

\* The (line, catalog entry) pairs of the input in which the entry's
\* regular expression matches the line.
Hits(data) ==
    {h \in (1..Len(data.lines)) \X (1..Len(SuspiciousPatterns)) :
        h[2] \in PatternsMatching(data.lines[h[1]].text)}

\* The pair a threat stands for: its line number and the catalog entry of
\* its severity and category (no two entries agree in both).
HitOf(x) ==
    <<x.lineNumber,
      CHOOSE k \in 1..Len(SuspiciousPatterns) :
          SuspiciousPatterns[k] =
              [severity |-> x.severity, category |-> x.category]>>

\* C19: the threat list of one analyzeLogs call holds exactly one threat for
\* every (line, pattern) pair whose pattern matches the line, also when
\* several patterns match one line, ordered by line number first and by the
\* pattern's place in the catalog second; and, the tracker being empty
\* before the call, every source holds afterwards one record per hit on a
\* line that names it.
C19_OneThreatPerHit ==
    (pc = "done" /\ logData.isString) =>
        /\ \A n \in 1..Len(threats) : HitOf(threats[n]) \in Hits(logData)
        /\ \A h \in Hits(logData) :
               Cardinality({n \in 1..Len(threats) : HitOf(threats[n]) = h}) = 1
        /\ \A n \in 1..Len(threats), m \in 1..Len(threats) :
               n < m =>
                   \/ HitOf(threats[n])[1] < HitOf(threats[m])[1]
                   \/ /\ HitOf(threats[n])[1] = HitOf(threats[m])[1]
                      /\ HitOf(threats[n])[2] < HitOf(threats[m])[2]
        /\ \A ip \in Sources :
               Len(activityLog[ip]) =
                   Cardinality({h \in Hits(logData) :
                                   logData.lines[h[1]].ip = ip})

\* C19 witness: a line from a source that two patterns match, between two
\* other matching lines, has been analysed.
C19_Witness ==
    /\ pc = "done"
    /\ logData.isString
    /\ Len(logData.lines) = 3
    /\ logData.lines[1].text = "port scan detected"
    /\ logData.lines[2].text = "multiple failed login attempts"
    /\ logData.lines[2].ip = "10.0.0.5"
    /\ logData.lines[3].text = "failed login"
    /\ Len(threats) = 4
    /\ threats[2].category = "AUTH"
    /\ threats[3].category = "BRUTE_FORCE"

-----------------------------------------------------------------------------
(* Specification SpecCalls: analyzeLogs called again and again in one       *)
(* process, so that a call finds the tracker as earlier calls left it.      *)

MaxCallLines == 1
MaxTracked == 5

CallLines ==
    [logTime : {0},
     text : {"failed login", "port scan detected",
             "multiple failed login attempts"},
     ip : LineSources]

CallInputs ==
    {NotAString}
    \cup {StringOf(lines) :
             lines \in UNION {[1..n -> CallLines] : n \in 0..MaxCallLines}}

InitCalls ==
    /\ pc = "input"
    /\ op = NoOp
    /\ logData \in CallInputs
    /\ result = Null
    /\ now = StartTime
    /\ activityLog = NewActivityLog
    /\ analysis = Null
    /\ threats = <<>>
    /\ correlations = Null
    /\ IdleScore
    /\ IdleCatalog
    /\ IdleServer

\* The next call of analyzeLogs is made, with argument data.
NextRequest(data) ==
    /\ pc = "done"
    /\ \A ip \in Sources : Len(activityLog[ip]) < MaxTracked
    /\ pc' = "input"
    /\ op' = [name |-> "request", ip |-> "none"]
    /\ logData' = data
    /\ result' = Null
    /\ threats' = <<>>
    /\ correlations' = Null
    /\ UNCHANGED trackerVars
    /\ UNCHANGED scoreVars
    /\ UNCHANGED catalogVars
    /\ UNCHANGED serverVars

NextCalls ==
    \/ AnalyzeLogsThrows
    \/ AnalyzeLogsReturns
    \/ \E data \in CallInputs : NextRequest(data)

SpecCalls == InitCalls /\ [][NextCalls]_vars

\* A call of analyzeLogs with an argument that is no string takes its step.
NonStringCall == pc = "input" /\ ~logData.isString /\ pc' = "done"

-----------------------------------------------------------------------------
(* Specification SpecCatalog: patterns.js evaluated with every pattern list  *)
(* of the bounded input set in the place of SUSPICIOUS_PATTERNS.            *)

MaxCatalog == 2

\* What the pattern field of an entry holds: a RegExp, or a string.
PatternKinds == {"RegExp", "string"}

CatalogSeverities ==
    {Str("CRITICAL"), Str("HIGH"), Str("LOW"), Str("SEVERE"), Undefined}

CatalogCategories == {Str("AUTH"), Str(""), Undefined}

CatalogEntries ==
    [pattern : PatternKinds, severity : CatalogSeverities,
     category : CatalogCategories]

InitCatalog ==
    /\ pc = "input"
    /\ op = NoOp
    /\ catalog \in UNION {[1..n -> CatalogEntries] : n \in 0..MaxCatalog}
    /\ result = Null
    /\ logData = StringOf(<<>>)
    /\ IdleScore
    /\ IdleTracker
    /\ IdleCorrelation
    /\ IdleServer

\* patterns.js, lines 84-86: validatePatterns is false, the module throws
LoadCatalogThrows ==
    /\ pc = "input"
    /\ ~ValidatePatterns(catalog)
    /\ pc' = "done"
    /\ op' = [name |-> "loadCatalog", ip |-> "none"]
    /\ result' = [error |-> "Invalid pattern configuration"]
    /\ UNCHANGED <<logData, catalog>>
    /\ UNCHANGED scoreVars
    /\ UNCHANGED trackerVars
    /\ UNCHANGED corrVars
    /\ UNCHANGED serverVars

\* patterns.js, lines 84-88: validatePatterns is true, the list is exported
LoadCatalogExports ==
    /\ pc = "input"
    /\ ValidatePatterns(catalog)
    /\ pc' = "done"
    /\ op' = [name |-> "loadCatalog", ip |-> "none"]
    /\ result' = [exports |-> catalog]
    /\ UNCHANGED <<logData, catalog>>
    /\ UNCHANGED scoreVars
    /\ UNCHANGED trackerVars
    /\ UNCHANGED corrVars
    /\ UNCHANGED serverVars

NextCatalog == LoadCatalogThrows \/ LoadCatalogExports

SpecCatalog == InitCatalog /\ [][NextCatalog]_vars

\* The load went through, or threw.
CatalogExported == result = [exports |-> catalog]
CatalogRejected == result = [error |-> "Invalid pattern configuration"]

\* C18 as claimed: the load goes through exactly when every entry has a
\* regular expression, a non-empty category string and a severity among
\* CRITICAL, HIGH, MEDIUM, LOW, INFO; otherwise it throws.
C18_ValidatesFiveSeverities ==
    pc = "done" =>
        /\ CatalogExported <=>
               \A k \in 1..Len(catalog) :
                   /\ catalog[k].pattern = "RegExp"
                   /\ catalog[k].category.type = "string"
                   /\ catalog[k].category.v # ""
                   /\ catalog[k].severity.type = "string"
                   /\ catalog[k].severity.v
                          \in {"CRITICAL", "HIGH", "MEDIUM", "LOW", "INFO"}
        /\ CatalogExported \/ CatalogRejected

\* C18 amended: the load goes through exactly when every entry has a
\* regular expression, a category that is a string (the empty string
\* included) and a severity among HIGH, MEDIUM, LOW, INFO; otherwise it
\* throws.
C18_ValidatesFourSeverities ==
    pc = "done" =>
        /\ CatalogExported <=>
               \A k \in 1..Len(catalog) :
                   /\ catalog[k].pattern = "RegExp"
                   /\ catalog[k].category.type = "string"
                   /\ catalog[k].severity.type = "string"
                   /\ catalog[k].severity.v \in {"HIGH", "MEDIUM", "LOW", "INFO"}
        /\ CatalogExported \/ CatalogRejected

\* C18 witness: a list whose first entry has the empty category and whose
\* second entry, otherwise well formed, has severity CRITICAL was rejected.
C18_Witness ==
    /\ pc = "done"
    /\ Len(catalog) = 2
    /\ catalog[1] = [pattern |-> "RegExp", severity |-> Str("HIGH"),
                     category |-> Str("")]
    /\ catalog[2] = [pattern |-> "RegExp", severity |-> Str("CRITICAL"),
                     category |-> Str("AUTH")]
    /\ CatalogRejected

-----------------------------------------------------------------------------
(* Specification SpecQuiet: analyzeLogs called again and again in one       *)
(* process on inputs some of whose lines no pattern matches.                *)

MaxQuietLines == 2

QuietLines ==
    [logTime : {0},
     text : {"failed login", "SQL injection attempt"},
     ip : LineSources]

QuietInputs ==
    {NotAString}
    \cup {StringOf(lines) :
             lines \in UNION {[1..n -> QuietLines] : n \in 0..MaxQuietLines}}

InitQuiet ==
    /\ pc = "input"
    /\ op = NoOp
    /\ logData \in QuietInputs
    /\ result = Null
    /\ now = StartTime
    /\ activityLog = NewActivityLog
    /\ analysis = Null
    /\ threats = <<>>
    /\ correlations = Null
    /\ IdleScore
    /\ IdleCatalog
    /\ IdleServer

NextQuiet ==
    \/ AnalyzeLogsThrows
    \/ AnalyzeLogsReturns
    \/ \E data \in QuietInputs : NextRequest(data)

SpecQuiet == InitQuiet /\ [][NextQuiet]_vars

\* No pattern of the catalog matches any line of the input string.
NoLineMatches(data) ==
    /\ data.isString
    /\ \A k \in 1..Len(SplitLines(data)) :
           PatternsMatching(SplitLines(data)[k].text) = {}

\* A call of analyzeLogs on such an input takes its step.
QuietCall == pc = "input" /\ NoLineMatches(logData) /\ pc' = "done"

\* C21: analyzeLogs on the empty string, and on any string in which no line
\* matches a pattern, returns (it does not throw) a report whose threats are
\* the one sentinel entry {message: 'No threats detected.', severity: 'INFO'},
\* whose correlations.correlatedEvents is empty and whose
\* summary.totalThreats is 0, and the tracker's records are afterwards what
\* they were before the call.
C21_NoMatchSentinel ==
    [][QuietCall =>
          /\ DOMAIN result' = {"threats", "correlations", "mlFeatures", "summary"}
          /\ result'.threats = <<NoThreatsDetected>>
          /\ result'.correlations.correlatedEvents = <<>>
          /\ result'.summary.totalThreats = 0
          /\ activityLog' = activityLog]_vars

\* C21 witness: while the tracker held records of earlier calls, a call on
\* two lines that name a tracked source and match no pattern has returned.
C21_Witness ==
    /\ pc = "done"
    /\ NoLineMatches(logData)
    /\ Len(logData.lines) = 2
    /\ logData.lines[1].ip = "10.0.0.5"
    /\ Len(activityLog["10.0.0.5"]) >= 2
    /\ result.threats = <<NoThreatsDetected>>

-----------------------------------------------------------------------------
(* The order of a group's threats, under SpecCorrelation.                   *)

\* C22 as claimed: in every group findCorrelatedEvents returns, every related
\* threat stands later in the input list than the group's primary threat.
C22_RelatedAfterPrimary ==
    pc = "done" =>
        \A k \in 1..Len(correlations.correlatedEvents) :
            LET g == correlations.correlatedEvents[k]
            IN  \A r \in 1..Len(g.relatedThreats) :
                    g.relatedThreats[r] > g.primaryThreat

-----------------------------------------------------------------------------
(* Specification SpecCarry: analyzeLogs called again and again in one       *)
(* process, often enough to raise a source's riskScore above 70.            *)

MaxCarryLines == 3
MaxCarried == 32

CarryLines ==
    [logTime : {0}, text : {"failed login"}, ip : LineSources]

\* The empty string, and up to MaxCarryLines times the same line.
CarryInputs ==
    {StringOf([k \in 1..n |-> line]) :
        n \in 0..MaxCarryLines, line \in CarryLines}

InitCarry ==
    /\ pc = "input"
    /\ op = NoOp
    /\ logData \in CarryInputs
    /\ result = Null
    /\ now = StartTime
    /\ activityLog = NewActivityLog
    /\ analysis = Null
    /\ threats = <<>>
    /\ correlations = Null
    /\ IdleScore
    /\ IdleCatalog
    /\ IdleServer

\* The next call of analyzeLogs is made, with argument data.
CarryRequest(data) ==
    /\ pc = "done"
    /\ \A ip \in Sources :
           Len(activityLog[ip]) + Len(data.lines) <= MaxCarried
    /\ pc' = "input"
    /\ op' = [name |-> "request", ip |-> "none"]
    /\ logData' = data
    /\ result' = Null
    /\ threats' = <<>>
    /\ correlations' = Null
    /\ UNCHANGED trackerVars
    /\ UNCHANGED scoreVars
    /\ UNCHANGED catalogVars
    /\ UNCHANGED serverVars

NextCarry ==
    \/ AnalyzeLogsReturns
    \/ \E data \in CarryInputs : CarryRequest(data)

SpecCarry == InitCarry /\ [][NextCarry]_vars

\* The records a are the first records of b.
IsPrefix(a, b) == Len(a) <= Len(b) /\ SubSeq(b, 1, Len(a)) = a

\* A call of analyzeLogs returns.
ReturningCall == pc = "input" /\ logData.isString /\ pc' = "done"

\* The sources the lines of the input name.
SourcesOf(data) == {data.lines[k].ip : k \in 1..Len(data.lines)}

\* C24: the records a source has in the tracker before a call of analyzeLogs
\* (all less than an hour old) are still its first records after the call,
\* and summary.suspiciousIPs of the call is the set of all sources with
\* records in the tracker, tracked by this call or an earlier one, whose
\* riskScore over those records exceeds 70.
C24_TrackerCarriesOver ==
    [][ReturningCall =>
          /\ \A ip \in Sources : IsPrefix(activityLog[ip], activityLog'[ip])
          /\ result'.summary.suspiciousIPs =
                 {ip \in Sources :
                     /\ activityLog'[ip] # <<>>
                     /\ CalculateRiskScore(activityLog'[ip], now) > 70}]_vars

\* C24 witness: a call whose input has lines, none of which names the source
\* 10.0.0.5, has returned that source in summary.suspiciousIPs.
C24_Witness ==
    /\ pc = "done"
    /\ logData.isString
    /\ Len(logData.lines) > 0
    /\ "10.0.0.5" \notin SourcesOf(logData)
    /\ "10.0.0.5" \in result.summary.suspiciousIPs

-----------------------------------------------------------------------------
(* Specification SpecStamps: analyzeLogs called once while the wall clock   *)
(* moves, the call lasting up to five minutes or a millisecond longer.      *)

MaxStampLines == 2

\* A line matches at most two patterns of the catalog.
MaxStampHits == 2 * MaxStampLines

StampLines ==
    [logTime : {0},
     text : {"failed login", "port scan detected",
             "multiple failed login attempts"},
     ip : LineSources]

StampInputs ==
    {StringOf(lines) :
        lines \in UNION {[1..n -> StampLines] : n \in 0..MaxStampLines}}

\* What the clock reads during a call that starts at time t.
ClockReadings(t) == {t, t + 5 * MsPerMinute, t + 5 * MsPerMinute + 1}

\* The clock does not go back.
Clocks(t) ==
    {clock \in [1..MaxStampHits -> ClockReadings(t)] :
        \A h \in 1..(MaxStampHits - 1) : clock[h] <= clock[h + 1]}

InitStamps ==
    /\ pc = "input"
    /\ op = NoOp
    /\ logData \in StampInputs
    /\ result = Null
    /\ now = StartTime
    /\ activityLog = NewActivityLog
    /\ analysis = Null
    /\ IdleScore
    /\ IdleCorrelation
    /\ IdleCatalog
    /\ IdleServer

\* analyzeLogs(logData), lines 508-591, the clock moving meanwhile
AnalyzeLogsOverTime ==
    /\ pc = "input"
    /\ IsString(logData)
    /\ \E clock \in Clocks(now) :
           LET run == AnalyzeLogsAt(logData, activityLog, clock)
           IN  /\ activityLog' = run.activityLog
               /\ threats' = run.threats
               /\ correlations' = run.correlations
               /\ result' = run.report
               /\ now' = clock[Len(clock)]
    /\ pc' = "done"
    /\ op' = [name |-> "analyzeLogs", ip |-> "none"]
    /\ UNCHANGED <<logData, analysis>>
    /\ UNCHANGED scoreVars
    /\ UNCHANGED catalogVars
    /\ UNCHANGED serverVars

NextStamps == AnalyzeLogsOverTime

SpecStamps == InitStamps /\ [][NextStamps]_vars

\* The call has returned at most five minutes after it began.
WithinFiveMinutes == pc = "done" /\ now - StartTime <= 5 * MsPerMinute

\* C25: every threat of a call carries a reading of the wall clock taken
\* during the call, readings not going back along the list, and not the time
\* written in its log line; and when the call collects at least two threats
\* and returns within five minutes, checkCorrelation names 'temporal' for
\* every ordered pair of its threats and correlations.correlatedEvents is one
\* group, whose primary threat is the first threat and whose related threats
\* are all the others in the order of the list.
C25_OneGroupOfAll ==
    pc = "done" =>
        /\ \A k \in 1..Len(threats) :
               /\ threats[k].timestamp \in ClockReadings(StartTime)
               /\ threats[k].timestamp <= now
               /\ threats[k].timestamp # threats[k].message.logTime
               /\ k > 1 => threats[k - 1].timestamp <= threats[k].timestamp
        /\ (WithinFiveMinutes /\ Len(threats) >= 2) =>
               /\ \A i \in 1..Len(threats), j \in 1..Len(threats) :
                      i # j =>
                          "temporal" \in
                              Labels(CheckCorrelation(threats[i],
                                                      threats[j]).type)
               /\ Len(correlations.correlatedEvents) = 1
               /\ correlations.correlatedEvents[1].primaryThreat = 1
               /\ correlations.correlatedEvents[1].relatedThreats =
                      [k \in 1..(Len(threats) - 1) |-> k + 1]

\* C25 witness: a call that took exactly five minutes has returned three
\* threats, the first an AUTH threat stamped at the start, the last stamped
\* five minutes later, with no source in common.
C25_Witness ==
    /\ WithinFiveMinutes
    /\ Len(threats) = 3
    /\ threats[1].category = "AUTH"
    /\ threats[1].sourceIP = NoIP
    /\ threats[1].timestamp = StartTime
    /\ threats[3].timestamp = StartTime + 5 * MsPerMinute
    /\ Len(correlations.correlatedEvents) = 1

-----------------------------------------------------------------------------
(* Specification SpecLabels: analyzeLogs called again and again in one      *)
(* process on lines of every action label extractAction can give.           *)

MaxLabels == 4

LabelLines ==
    [logTime : {0},
     text : {"failed login", "successful login for unknown user",
             "port scan detected", "malware detected"},
     ip : {"10.0.0.5"}]

LabelInputs == {StringOf(<<line>>) : line \in LabelLines}

InitLabels ==
    /\ pc = "input"
    /\ op = NoOp
    /\ logData \in LabelInputs
    /\ result = Null
    /\ now = StartTime
    /\ activityLog = NewActivityLog
    /\ analysis = Null
    /\ threats = <<>>
    /\ correlations = Null
    /\ IdleScore
    /\ IdleCatalog
    /\ IdleServer

\* The next call of analyzeLogs is made, with argument data.
LabelRequest(data) ==
    /\ pc = "done"
    /\ \A ip \in Sources : Len(activityLog[ip]) < MaxLabels
    /\ pc' = "input"
    /\ op' = [name |-> "request", ip |-> "none"]
    /\ logData' = data
    /\ result' = Null
    /\ threats' = <<>>
    /\ correlations' = Null
    /\ UNCHANGED trackerVars
    /\ UNCHANGED scoreVars
    /\ UNCHANGED catalogVars
    /\ UNCHANGED serverVars

NextLabels ==
    \/ AnalyzeLogsReturns
    \/ \E data \in LabelInputs : LabelRequest(data)

SpecLabels == InitLabels /\ [][NextLabels]_vars

\* The action labels of a source's records, in order.
ActionsOf(ip) ==
    [k \in 1..Len(activityLog[ip]) |-> activityLog[ip][k].action]

\* C26: in every state of the tracker that calls of analyzeLogs lead to,
\* every record's action is failed_login, success_login, port_scan or
\* unknown, and for every source analyzePattern gives
\* suspiciousSequence.details.patternDetected = false, as does the
\* behaviorAnalysis of every threat of the call.
C26_NoKnownSequence ==
    /\ \A ip \in Sources :
           /\ \A k \in 1..Len(activityLog[ip]) :
                  activityLog[ip][k].action \in
                      {"failed_login", "success_login", "port_scan", "unknown"}
           /\ ~AnalyzePattern(activityLog, ip, now)
                   .suspiciousSequence.details.patternDetected
    /\ \A k \in 1..Len(threats) :
           threats[k].behaviorAnalysis # Null =>
               ~threats[k].behaviorAnalysis
                    .suspiciousSequence.details.patternDetected

\* C26 witness: a source's records are failed_login, success_login and then
\* unknown, the first two labels of a known sequence followed by the label of
\* a line of another category.
C26_Witness ==
    /\ pc = "done"
    /\ ActionsOf("10.0.0.5") = <<"failed_login", "success_login", "unknown">>
    /\ Len(threats) = 1
    /\ ~threats[1].behaviorAnalysis.suspiciousSequence.details.patternDetected

-----------------------------------------------------------------------------
(* Threats left out of every group, under SpecCorrelation.                  *)

\* checkCorrelation holds for the threats at p and q in one argument order
\* or the other.
CorrelatedEitherWay(ts, p, q) ==
    \/ CheckCorrelation(ts[p], ts[q]).isCorrelated
    \/ CheckCorrelation(ts[q], ts[p]).isCorrelated

\* The threat at q is a related threat of a group whose primary threat
\* stands before position p.
ClaimedByEarlierGroup(groups, p, q) ==
    \E k \in 1..Len(groups) :
        /\ groups[k].primaryThreat < p
        /\ \E r \in 1..Len(groups[k].relatedThreats) :
               groups[k].relatedThreats[r] = q

\* The threat at p is correlated with some threat of the list, and every
\* threat it is correlated with is a related threat of an earlier group.
OnlyCorrelatedWithClaimed(ts, groups, p) ==
    /\ \E q \in 1..Len(ts) : q # p /\ CorrelatedEitherWay(ts, p, q)
    /\ \A q \in 1..Len(ts) :
           (q # p /\ CorrelatedEitherWay(ts, p, q)) =>
               ClaimedByEarlierGroup(groups, p, q)

\* C27: a threat that is correlated with other threats of the list, all of
\* them related threats of groups with an earlier primary threat (so that no
\* primary threat is correlated with it), stands in no group, neither as
\* primary nor as related threat.
C27_LeftOutByClaiming ==
    pc = "done" =>
        \A p \in 1..Len(threats) :
            OnlyCorrelatedWithClaimed(threats, correlations.correlatedEvents, p)
                => PlacesInGroups(p, correlations.correlatedEvents) = 0

\* C27 witness: the first threat has claimed the second, and the third,
\* which is correlated with the second and not with the first, is in no
\* group.
C27_Witness ==
    /\ pc = "done"
    /\ Len(threats) = 3
    /\ Len(correlations.correlatedEvents) = 1
    /\ correlations.correlatedEvents[1].primaryThreat = 1
    /\ correlations.correlatedEvents[1].relatedThreats = <<2>>
    /\ CorrelatedEitherWay(threats, 3, 2)
    /\ ~CorrelatedEitherWay(threats, 3, 1)
    /\ PlacesInGroups(3, correlations.correlatedEvents) = 0

-----------------------------------------------------------------------------
(* The route handlers: withTimeout, analyzeLogFile and analyzeText.         *)
(*                                                                          *)
(* A handler is an async function: it runs until it awaits, and goes on in  *)
(* a later job.  A request's pc names the await it is stopped at:           *)
(*   "new"                 withTimeout has not been called yet              *)
(*   "parsing"             await streamProcessor / parsers.csv / .text      *)
(*   "line"                inside analyzeLogs, before the line call.index   *)
(*                         of lines.forEach (after the loop when the index  *)
(*                         is past the last line); no await                 *)
(*   "chunkAwait"          await analyzeLogs(chunkString) in analyzeLogFile *)
(*   "textAwait"           await analyzeLogs(formattedLogs) in analyzeText  *)
(*   "unlinking"           await cleanupResources(filePath), line 486       *)
(*   "unlinkingAfterError" await cleanupResources(filePath), line 504       *)
(*   "done"                withTimeout has returned                         *)
(* An await of a pending file operation is resumed by the event loop when   *)
(* the operation completes; an await of a value that is no promise is       *)
(* resumed from the microtask queue, which is emptied before the event loop *)
(* runs another callback (a timer, a completed file operation, a request).  *)
(* The file's entries are JSON texts of the model's log lines.              *)

\* const chunkSize (1000 in the source): the entries analysed per call
ChunkSize == 1

\* No call of analyzeLogs is under way; no report has been returned.
NoCall == [data |-> StringOf(<<>>), lines |-> <<>>, index |-> 0, found |-> <<>>]

\* A request as the router hands it to withTimeout(handler).
NewRequest(route, input) ==
    [route |-> route,
     input |-> input,
     pc |-> "new",
     timer |-> "unset",
     responses |-> <<>>,
     filePath |-> "null",
     unlinks |-> 0,
     unlinkFailed |-> FALSE,
     offset |-> 0,
     calls |-> 0,
     call |-> NoCall,
     report |-> Null,
     results |-> <<>>,
     unhandled |-> 0]

\* The mutant in which lines.forEach awaits a file operation per line.
AwaitKindLineIO(p) ==
    CASE p \in {"parsing", "unlinking", "unlinkingAfterError", "line"} -> "io"
      [] p \in {"chunkAwait", "textAwait"} -> "microtask"
      [] OTHER -> "end"

\* What the handler awaits at a place: a file operation, a plain value, or
\* nothing (analyzeLogs is no async function and its loops await nothing).
AwaitKind(p) ==
    CASE p \in {"parsing", "unlinking", "unlinkingAfterError"} -> "io"
      [] p \in {"chunkAwait", "textAwait"} -> "microtask"
      [] p = "line" -> "none"
      [] OTHER -> "end"

\* res.headersSent
HeadersSent(req) == req.responses # <<>>

\* res.status(status).json(...) when the headers have not been sent; when
\* they have, Express throws (ERR_HTTP_HEADERS_SENT) and sends nothing.
Sent(req, status) == [req EXCEPT !.responses = Append(@, status)]

\* withTimeout, lines 25-28: the handler's promise is fulfilled, the timer
\* is cleared (the continuation is a microtask of the same turn)
HandlerReturns(req) ==
    [req EXCEPT !.pc = "done",
                !.timer = IF @ = "armed" THEN "cleared" ELSE @]

\* withTimeout, lines 29-31, and the application's error middleware: the
\* handler's promise is rejected, next(error) reaches the error handler,
\* whose res.status(500).json throws in its turn once the headers are sent
HandlerThrows(req) ==
    IF HeadersSent(req)
    THEN [req EXCEPT !.pc = "done", !.unhandled = @ + 1]
    ELSE [Sent(req, 500) EXCEPT !.pc = "done"]

\* The mutant of the catch block that answers without looking at
\* res.headersSent.
ErrorPathSendsAlways(req) == TRUE

\* analyzeLogFile, line 508: if (!res.headersSent)
ErrorPathSends(req) == ~HeadersSent(req)

\* analyzeLogFile, lines 507-520: the catch block after its cleanup, and the
\* finally block
AfterCatch(req) ==
    IF ~ErrorPathSends(req) THEN HandlerReturns(req)
    ELSE IF HeadersSent(req) THEN HandlerThrows(req)
    ELSE HandlerReturns(Sent(req, 500))

\* analyzeLogFile, lines 499-505: the catch block up to its cleanup
Catch(req) ==
    IF req.filePath # "null"
    THEN [req EXCEPT !.pc = "unlinkingAfterError", !.unlinks = @ + 1]
    ELSE AfterCatch(req)

\* The mutant that leaves filePath set after the cleanup.
FilePathKept == "set"

\* analyzeLogFile, line 487: filePath = null
FilePathAfterCleanup == "null"

\* analyzeLogFile, lines 486-497: after the cleanup of the success path
AfterUnlink(req) ==
    LET cleaned == [req EXCEPT !.filePath = FilePathAfterCleanup]
    IN  IF HeadersSent(cleaned) THEN Catch(cleaned)
        ELSE HandlerReturns(Sent(cleaned, 200))

\* analyzeLogFile, lines 485-486: cleanupResources(filePath) is called
StartCleanup(req) == [req EXCEPT !.pc = "unlinking", !.unlinks = @ + 1]

\* analyzeLogs(chunkString) is entered: lines 504-509
BeginCall(req, entries) ==
    [req EXCEPT !.pc = "line",
                !.calls = @ + 1,
                !.call = [data |-> StringOf(entries),
                          lines |-> SplitLines(StringOf(entries)),
                          index |-> 1,
                          found |-> <<>>]]

\* logsToAnalyze.slice(i, i + chunkSize), i being the offset
ChunkAt(entries, offset) ==
    SubSeq(entries, offset + 1, Min(Len(entries), offset + ChunkSize))

\* analyzeLogFile, lines 457-479: the for loop is entered or gone round
ChunkLoop(req) ==
    IF req.offset < Len(req.input.entries)
    THEN BeginCall(req, ChunkAt(req.input.entries, req.offset))
    ELSE StartCleanup(req)

\* withTimeout, lines 11-25, and the handler up to its first await
FromStart(req) ==
    LET armed == [req EXCEPT !.timer = "armed"]
    IN  IF req.route = "file"
        THEN IF ~req.input.present
             THEN HandlerReturns(Sent(armed, 400))
             ELSE [armed EXCEPT !.filePath = "set", !.pc = "parsing"]
        ELSE IF req.input.kind = "missing"
             THEN HandlerReturns(Sent(armed, 400))
             ELSE BeginCall(armed, req.input.entries)

\* analyzeLogFile, lines 436-461: the parser has finished; a file that does
\* not parse throws, as does parsedContent.logs when the content is null
AfterParse(req) ==
    IF req.input.content # "entries" THEN Catch(req) ELSE ChunkLoop(req)

\* analyzeLogFile, lines 475-479: results = results.concat(chunkResults)
AfterChunk(req) ==
    ChunkLoop([req EXCEPT !.results = Append(@, req.report),
                          !.offset = @ + ChunkSize])

\* analyzeText, lines 541-546: the response, and the catch block whose
\* res.status(...).json throws again once the headers are sent
AfterTextAwait(req) ==
    IF HeadersSent(req) THEN HandlerThrows(req)
    ELSE HandlerReturns(Sent(req, 200))

\* lines.forEach, one round: the line's patterns have been processed into
\* st, and the line was tracked when it names a source and matches
AfterLine(m, st, access) ==
    LET c == m.req.call
        tracked == /\ c.lines[c.index].ip # NoIP
                   /\ PatternsMatching(c.lines[c.index].text) # {}
    IN  [m EXCEPT !.log = st.activityLog,
                  !.acc = IF tracked THEN Append(@, access) ELSE @,
                  !.req.call.found = st.threats,
                  !.req.call.index = c.index + 1]

\* analyzeLogs returns the report run.report to the handler's await
Returned(m, run, access) ==
    [m EXCEPT !.acc = Append(@, access),
              !.req.report = run.report,
              !.req.pc = IF m.req.route = "file"
                         THEN "chunkAwait" ELSE "textAwait"]

\* analyzeLogs, lines 511-591, from the place call.index on up to the next
\* place: one round of lines.forEach, or what follows the loop.  m holds
\* the request, the tracker's log and the history of tracker accesses.
LineStep(m, t) ==
    LET c == m.req.call
        access == [req |-> m.id, call |-> m.req.calls]
    IN  IF c.index <= Len(c.lines)
        THEN AfterLine(m,
                       ProcessPatterns(c.lines, c.index, 1,
                           [activityLog |-> m.log, threats |-> c.found], t),
                       access)
        ELSE Returned(m,
                      AfterLines(c.data,
                          [activityLog |-> m.log, threats |-> c.found], t),
                      access)

\* The code from the place the request is stopped at up to the next place.
Step(m, t) ==
    CASE m.req.pc = "new"        -> [m EXCEPT !.req = FromStart(@)]
      [] m.req.pc = "parsing"    -> [m EXCEPT !.req = AfterParse(@)]
      [] m.req.pc = "line"       -> LineStep(m, t)
      [] m.req.pc = "chunkAwait" -> [m EXCEPT !.req = AfterChunk(@)]
      [] m.req.pc = "textAwait"  -> [m EXCEPT !.req = AfterTextAwait(@)]
      [] m.req.pc = "unlinking"  -> [m EXCEPT !.req = AfterUnlink(@)]
      [] m.req.pc = "unlinkingAfterError" -> [m EXCEPT !.req = AfterCatch(@)]
      [] OTHER -> m

\* The code runs on while it awaits nothing.
RECURSIVE Run(_, _)
Run(m, t) == IF AwaitKind(m.req.pc) = "none" THEN Run(Step(m, t), t) ELSE m

\* One job of request r: from the place it is stopped at to its next await.
Job(r, req) ==
    Run(Step([id |-> r, req |-> req, log |-> activityLog, acc |-> accesses],
             now), now)

\* The job's effect on the state; a request that awaits a plain value joins
\* the microtask queue.
Resumed(r, req, queue) ==
    \E m \in {Job(r, req)} :
        /\ reqs' = [reqs EXCEPT ![r] = m.req]
        /\ activityLog' = m.log
        /\ accesses' = m.acc
        /\ jobs' = IF AwaitKind(m.req.pc) = "microtask"
                   THEN Append(queue, r) ELSE queue
        /\ UNCHANGED <<pc, op, now, analysis>>
        /\ UNCHANGED scoreVars
        /\ UNCHANGED corrVars
        /\ UNCHANGED pipelineVars
        /\ UNCHANGED catalogVars

\* The router calls withTimeout(handler) for request r.
Arrive(r) ==
    /\ jobs = <<>>
    /\ reqs[r].pc = "new"
    /\ Resumed(r, reqs[r], jobs)

\* A file operation request r awaits completes; an unlink fails or not, and
\* cleanupResources swallows the failure (lines 266-276).
IoDone(r) ==
    /\ jobs = <<>>
    /\ AwaitKind(reqs[r].pc) = "io"
    /\ \E failed \in BOOLEAN :
           Resumed(r,
                   IF reqs[r].pc \in {"unlinking", "unlinkingAfterError"}
                   THEN [reqs[r] EXCEPT !.unlinkFailed = failed]
                   ELSE reqs[r],
                   jobs)

\* The first job of the microtask queue runs.
RunJob ==
    /\ jobs # <<>>
    /\ Resumed(Head(jobs), reqs[Head(jobs)], Tail(jobs))

\* withTimeout, lines 11-19: the timer of request r fires
TimerFires(r) ==
    /\ jobs = <<>>
    /\ reqs[r].timer = "armed"
    /\ reqs' = [reqs EXCEPT ![r] =
                   [(IF HeadersSent(@) THEN @ ELSE Sent(@, 504))
                       EXCEPT !.timer = "fired"]]
    /\ UNCHANGED <<jobs, accesses>>
    /\ UNCHANGED <<pc, op>>
    /\ UNCHANGED trackerVars
    /\ UNCHANGED scoreVars
    /\ UNCHANGED corrVars
    /\ UNCHANGED pipelineVars
    /\ UNCHANGED catalogVars

NextServer ==
    \/ \E r \in DOMAIN reqs : Arrive(r)
    \/ \E r \in DOMAIN reqs : IoDone(r)
    \/ RunJob
    \/ \E r \in DOMAIN reqs : TimerFires(r)

-----------------------------------------------------------------------------
(* Specification SpecServer: one request to POST /analyze/file or to POST   *)
(* /analyze/text, from withTimeout on.                                      *)

MaxEntries == 2

EntryLines ==
    [logTime : {0},
     text : {"failed login", "SQL injection attempt"},
     ip : {"10.0.0.5"}]

EntryLists == UNION {[1..n -> EntryLines] : n \in 0..MaxEntries}

\* What uploadMiddleware lets through: a file of an allowed extension, whose
\* content parses to a list of entries, does not parse, or is JSON null.
Uploads ==
    [present : {TRUE}, content : {"entries"}, entries : EntryLists]
    \cup [present : {TRUE}, content : {"invalid", "null"}, entries : {<<>>}]

\* req.body.logData: missing (or the empty string), a string, or an array
\* that formatLogsForAnalysis turns into a string.
Bodies ==
    [kind : {"missing"}, entries : {<<>>}]
    \cup [kind : {"string"}, entries : EntryLists \ {<<>>}]
    \cup [kind : {"array"}, entries : EntryLists]

ServerRequests ==
    {NewRequest("file", u) : u \in Uploads}
    \cup {NewRequest("text", b) : b \in Bodies}

InitServer ==
    /\ pc = "idle"
    /\ op = NoOp
    /\ now = StartTime
    /\ activityLog = NewActivityLog
    /\ analysis = Null
    /\ reqs \in [1..1 -> ServerRequests]
    /\ jobs = <<>>
    /\ accesses = <<>>
    /\ IdleScore
    /\ IdleCorrelation
    /\ IdlePipeline
    /\ IdleCatalog

SpecServer == InitServer /\ [][NextServer]_vars


\* The status codes of the responses sent for request r, in order.
Responses(r) == reqs[r].responses

\* C28: for every request routed through withTimeout at most one response
\* is sent and no error is left unhandled; when the handler has finished and
\* the timer has not fired, the timer is cleared and no 504 has been sent;
\* and the 504 response is sent by the timer's firing only, after which the
\* handler's completion adds no response.
C28_AtMostOneResponse ==
    \A r \in DOMAIN reqs :
        /\ Len(Responses(r)) <= 1
        /\ reqs[r].unhandled = 0
        /\ (reqs[r].pc = "done" /\ reqs[r].timer # "fired") =>
               /\ reqs[r].timer = "cleared"
               /\ Responses(r) \in {<<200>>, <<400>>, <<500>>}
        /\ Responses(r) = <<504>> => reqs[r].timer = "fired"
        /\ (reqs[r].pc = "done" /\ reqs[r].timer = "fired") =>
               Len(Responses(r)) = 1

\* C28 witness: the timer fired and sent 504 while the file was being
\* parsed, and the handler has since analysed the file and finished.
C28_Witness ==
    /\ reqs[1].route = "file"
    /\ reqs[1].pc = "done"
    /\ reqs[1].timer = "fired"
    /\ Responses(1) = <<504>>
    /\ Len(reqs[1].results) = 2

\* What analyzeLogFile answers for an upload when the timer does not fire.
AnswerFor(upload) == IF upload.content = "entries" THEN 200 ELSE 500

\* C30: for every analyzeLogFile request with an uploaded file, the
\* deletion of the temporary file is never attempted more than once and has
\* been attempted exactly once when the handler has finished, whether the
\* file parsed, the content could be processed and the response could be
\* sent or not; and the response is 504 when the timer fired first and
\* otherwise depends on the upload alone, not on whether the deletion
\* failed.
C30_OneCleanup ==
    \A r \in DOMAIN reqs :
        (reqs[r].route = "file" /\ reqs[r].input.present) =>
            /\ reqs[r].unlinks <= 1
            /\ reqs[r].pc = "done" =>
                   /\ reqs[r].unlinks = 1
                   /\ Responses(r) \in {<<504>>, <<AnswerFor(reqs[r].input)>>}
                   /\ reqs[r].timer # "fired" =>
                          Responses(r) = <<AnswerFor(reqs[r].input)>>

\* C30 witness: the deletion failed after the timer had answered 504, and
\* the handler, whose own response could then not be sent, has finished
\* without a second attempt.
C30_Witness ==
    /\ reqs[1].route = "file"
    /\ reqs[1].input.content = "entries"
    /\ reqs[1].pc = "done"
    /\ reqs[1].unlinkFailed
    /\ reqs[1].unlinks = 1
    /\ Responses(1) = <<504>>


-----------------------------------------------------------------------------
(* Specification SpecOverlap: two requests to POST /analyze/file for the    *)
(* same source, each of MaxEntries entries, handled by one process.         *)

OverlapUploads ==
    [present : {TRUE}, content : {"entries"},
     entries : [1..MaxEntries -> EntryLines]]

InitOverlap ==
    /\ pc = "idle"
    /\ op = NoOp
    /\ now = StartTime
    /\ activityLog = NewActivityLog
    /\ analysis = Null
    /\ reqs \in [1..2 -> {NewRequest("file", u) : u \in OverlapUploads}]
    /\ jobs = <<>>
    /\ accesses = <<>>
    /\ IdleScore
    /\ IdleCorrelation
    /\ IdlePipeline
    /\ IdleCatalog

SpecOverlap == InitOverlap /\ [][NextServer]_vars


\* C23: the tracker accesses of one analyzeLogs invocation (its writes in
\* lines.forEach and its reads for the report) are consecutive in the
\* history of all tracker accesses: between two accesses of the same
\* invocation there is no access of another invocation or request.
C23_InvocationAtomic ==
    \A i \in 1..Len(accesses) : \A k \in i..Len(accesses) :
        accesses[i] = accesses[k] =>
            \A j \in i..k : accesses[j] = accesses[i]

\* C23 witness: both requests are in flight and unanswered, the chunks of
\* request 2 were analysed while request 1 was parsing, and the threat of
\* the last chunk of request 1 reports a frequency rate above the number
\* of records request 1 has tracked itself, one per entry.
C23_Witness ==
    /\ \A r \in DOMAIN reqs :
           /\ reqs[r].pc = "unlinking"
           /\ reqs[r].responses = <<>>
           /\ \A n \in 1..Len(reqs[r].input.entries) :
                  reqs[r].input.entries[n].text = "failed login"
    /\ accesses[1].req = 2
    /\ reqs[1].calls > 1
    /\ reqs[1].report.threats[1].sourceIP = "10.0.0.5"
    /\ reqs[1].report.threats[1].behaviorAnalysis.frequency.rate
           > Len(reqs[1].input.entries)


-----------------------------------------------------------------------------
(* The application's middleware stack (app.js): the functions given to      *)
(* app.use, in order.  A request goes down the stack while each function    *)
(* calls next(); next(err) goes on at the next function of four arguments.  *)

Stack ==
    <<"helmet", "limiter", "express.json", "setTimeout",
      "express.urlencoded", "express.raw", "hpp", "cors", "securityHeaders",
      "debugUploads", "memoryBefore", "v1LogRoutes", "memoryAfter",
      "errorHandler", "notFound">>

\* The functions of four arguments (err, req, res, next).
ErrorHandlers == {"errorHandler"}

\* router.post('/analyze/file', ...) and router.post('/analyze/text', ...)
\* under app.use('/api/v1/logs', ...)
Routes ==
    {[method |-> "POST", path |-> "/api/v1/logs/analyze/file"],
     [method |-> "POST", path |-> "/api/v1/logs/analyze/text"]}

\* The request's method and path match a route.
Matches(req) == [method |-> req.method, path |-> req.path] \in Routes

\* A request as it enters the stack; status 0 stands for no response yet.
NewArrival(method, path, overLimit, badJson) ==
    [method |-> method,
     path |-> path,
     overLimit |-> overLimit,
     badJson |-> badJson,
     layer |-> 1,
     place |-> "stack",
     err |-> FALSE,
     socket |-> "unset",
     status |-> 0]

\* The place in the stack of the first function from place l on that takes
\* a request in the state req: an error handler when an error was passed,
\* another function when not; past the stack when there is none.
RECURSIVE Following(_, _)
Following(req, l) ==
    IF l > Len(Stack) THEN l
    ELSE IF (Stack[l] \in ErrorHandlers) = req.err THEN l
    ELSE Following(req, l + 1)

\* next() or next(err): the request goes on down the stack; past the last
\* function Express answers itself (404, or 500 for an error).
CallNext(req) ==
    LET l == Following(req, req.layer + 1)
    IN  IF l <= Len(Stack) THEN [req EXCEPT !.layer = l]
        ELSE [req EXCEPT !.layer = l,
                         !.place = "answered",
                         !.status = IF req.err THEN 500 ELSE 404]

\* res.status(status).json(...) by a function that does not call next()
Answer(req, status) == [req EXCEPT !.place = "answered", !.status = status]

\* The function at the request's place in the stack is called.
Layer(req) ==
    CASE Stack[req.layer] = "limiter" ->
             IF req.overLimit THEN Answer(req, 429) ELSE CallNext(req)
      [] Stack[req.layer] = "express.json" ->
             CallNext([req EXCEPT !.err = req.badJson])
      [] Stack[req.layer] = "setTimeout" ->
             CallNext([req EXCEPT !.socket = "armed"])
      [] Stack[req.layer] = "cors" ->
             IF req.method = "OPTIONS" THEN Answer(req, 204)
             ELSE CallNext(req)
      [] Stack[req.layer] = "v1LogRoutes" ->
             IF Matches(req) THEN [req EXCEPT !.place = "routed"]
             ELSE CallNext(req)
      [] Stack[req.layer] = "memoryAfter" -> [req EXCEPT !.place = "waiting"]
      [] Stack[req.layer] = "errorHandler" -> Answer(req, 500)
      [] Stack[req.layer] = "notFound" -> Answer(req, 404)
      [] OTHER -> CallNext(req)

\* Request r is handed to the function at its place in the stack.
RunLayer(r) ==
    /\ reqs[r].place = "stack"
    /\ reqs' = [reqs EXCEPT ![r] = Layer(@)]
    /\ UNCHANGED <<jobs, accesses>>
    /\ UNCHANGED <<pc, op>>
    /\ UNCHANGED trackerVars
    /\ UNCHANGED scoreVars
    /\ UNCHANGED corrVars
    /\ UNCHANGED pipelineVars
    /\ UNCHANGED catalogVars

\* The callback of res.setTimeout(300000, ...): the socket of request r has
\* been idle for five minutes, and no function is running
SocketTimeout(r) ==
    /\ reqs[r].place = "waiting"
    /\ reqs[r].socket = "armed"
    /\ reqs' = [reqs EXCEPT ![r] = [Answer(@, 408) EXCEPT !.socket = "fired"]]
    /\ UNCHANGED <<jobs, accesses>>
    /\ UNCHANGED <<pc, op>>
    /\ UNCHANGED trackerVars
    /\ UNCHANGED scoreVars
    /\ UNCHANGED corrVars
    /\ UNCHANGED pipelineVars
    /\ UNCHANGED catalogVars

NextRoutes ==
    \/ \E r \in DOMAIN reqs : RunLayer(r)
    \/ \E r \in DOMAIN reqs : SocketTimeout(r)

-----------------------------------------------------------------------------
(* Specification SpecRoutes: one request from the top of the stack to its   *)
(* response or to a route; LiveSpecRoutes adds that the server goes on      *)
(* while a function or a timer callback is due.                             *)

Methods == {"GET", "POST", "OPTIONS"}

Paths ==
    {"/", "/api/v1/logs/status",
     "/api/v1/logs/analyze/file", "/api/v1/logs/analyze/text"}

Arrivals ==
    {NewArrival(m, p, o, b) :
        m \in Methods, p \in Paths, o \in BOOLEAN, b \in BOOLEAN}

InitRoutes ==
    /\ pc = "idle"
    /\ op = NoOp
    /\ now = StartTime
    /\ activityLog = NewActivityLog
    /\ analysis = Null
    /\ reqs \in [1..1 -> Arrivals]
    /\ jobs = <<>>
    /\ accesses = <<>>
    /\ IdleScore
    /\ IdleCorrelation
    /\ IdlePipeline
    /\ IdleCatalog

SpecRoutes == InitRoutes /\ [][NextRoutes]_vars

LiveSpecRoutes == SpecRoutes /\ WF_vars(NextRoutes)

\* The request is within the rate limit, its body parses and it is no CORS
\* preflight: nothing above the routes answers it or passes an error.
ReachesRoutes(req) ==
    ~req.overLimit /\ ~req.badJson /\ req.method # "OPTIONS"

\* C29: every request whose path and method match no route, and which is
\* answered by nothing above the routes, eventually receives the 404
\* response of the 404 handler.
C29_UnmatchedGets404 ==
    (~Matches(reqs[1]) /\ ReachesRoutes(reqs[1])) ~> (reqs[1].status = 404)

\* No request is ever answered with 404: the 404 handler is never called.
NotFoundNeverSent == \A r \in DOMAIN reqs : reqs[r].status # 404

=============================================================================
